---- MODULE Spec2Model ----
(***************************************************************************)
(* Task lifecycle protocol and workflow engine of the smart crypto         *)
(* portfolio manager.                                                      *)
(*                                                                         *)
(*  - the agent-side A2A server (src/a2a/server.py): the Task Store, the   *)
(*    message store, the HTTP handlers and the background _process_task;   *)
(*  - the orchestration agent's workflow engine                            *)
(*    (src/agents/orchestration/agent.py), which drives remote tasks       *)
(*    through the A2A client (src/a2a/client.py).                          *)
(*                                                                         *)
(* Task objects live in a heap (objs) because the server keeps and passes  *)
(* them by reference: the store maps a task_id to an object, and each      *)
(* background _process_task holds the object it was scheduled with.        *)
(***************************************************************************)
EXTENDS Integers, Sequences, FiniteSets, TLC

VARIABLES
    objs,         \* heap of Task objects, in creation order
    tasks,        \* A2AServer.tasks: task_id -> index into objs
    messages,     \* A2AServer.messages: task_id -> sequence of messages
    bg_pc,        \* per Task object: position of its background _process_task
    resp,         \* the last HTTP response the server produced
    clock,        \* datetime.utcnow(), as a logical time
    workflow,     \* OrchestrationAgent.workflows[workflow_id] (one instance)
    wf_pc,        \* position of _execute_workflow_steps
    wf_local,     \* locals of _execute_workflow_steps
    agent_registry, \* A2AClient.agent_registry (names of discovered agents)
    submitted,    \* per step index: task ids the engine submitted for it
    wf_resp,      \* what execute_workflow / execute_llm_function returned last
    orch_agents,  \* MCP OrchestrationAgent.agents, in insertion order
    function_to_agent, \* MCP OrchestrationAgent.function_to_agent
    orch_workflows, \* MCP OrchestrationAgent.workflows (create_workflow)
    orch_ret,     \* what the last call on the MCP agent registry returned
    mcp_agents,   \* function-protocol OrchestrationAgent.agents
    mcp_workflows, \* function-protocol OrchestrationAgent.workflows
    mcp_resp,     \* what call_function returned last
    protocol_tasks, \* protocol A2AServer.tasks: task_id -> Task
    protocol_bg,  \* per task of protocol_tasks: position of its _process_task
    tasks_db,     \* the module's tasks_db: task_id -> task dict
    send_bg,      \* the process_task runs queued by tasks_send, with positions
    protocol_resp, \* the last HTTP response of the protocol server
    order_params, \* the parameters of the last call of get_workflow
    order_ret,    \* what that call returned or raised
    workflow_steps, \* BaseWorkflow.steps: the status of each step
    current_step_index, \* BaseWorkflow.current_step_index
    results,      \* the list execute_all_steps builds and returns
    called,       \* the steps whose function the current call has called
    bw_pc,        \* position of execute_all_steps
    step_result,  \* BaseWorkflow.steps: the result of each step
    next_ret,     \* what the last call of execute_next_step returned
    registry_cards, \* A2AClient.agent_registry: the capabilities of each stored card
    agent_card,   \* A2AClient.agent_card of the protocol client
    posted,       \* the task-creation requests the clients have posted
    client_ret,   \* the last call of create_task or execute_skill
    in_flight,    \* per thread: the execute_function call it is inside
    plain_calls,  \* per workflow id: calls of simulate_workflow_progress without a step index
    validate_ret  \* what the last call of validate_parameters returned

svars == <<objs, tasks, messages, bg_pc, resp, clock>>
wvars == <<workflow, wf_pc, wf_local, agent_registry, submitted, wf_resp>>
ovars == <<orch_agents, function_to_agent, orch_workflows, orch_ret>>
mvars == <<mcp_agents, mcp_workflows, mcp_resp>>
pvars == <<protocol_tasks, protocol_bg, tasks_db, send_bg, protocol_resp>>
gvars == <<order_params, order_ret>>
bvars == <<workflow_steps, current_step_index, results, called, bw_pc,
          step_result, next_ret>>
cvars == <<registry_cards, agent_card, posted, client_ret>>
dvars == <<in_flight>>
avars == <<plain_calls>>
evars == <<validate_ret>>
xvars == <<pvars, gvars, bvars, cvars, dvars, avars, evars>>
not_server == <<wvars, ovars, mvars, xvars>>
not_engine == <<svars, ovars, mvars, xvars>>
not_protocol == <<svars, wvars, ovars, mvars, gvars, bvars, cvars, dvars, avars, evars>>
not_order == <<svars, wvars, ovars, mvars, pvars, bvars, cvars, dvars, avars, evars>>
not_validators == <<svars, wvars, ovars, mvars, pvars, bvars, cvars, dvars, avars>>
not_base_workflow == <<svars, wvars, ovars, mvars, pvars, gvars, cvars, dvars, avars,
                       evars>>
not_client == <<svars, workflow, wf_pc, wf_local, submitted, wf_resp,
                ovars, mvars, pvars, gvars, bvars, dvars, avars, evars>>
not_dispatch == <<svars, wvars, mvars, pvars, gvars, bvars, cvars, avars, evars>>
not_advance == <<svars, wvars, ovars, pvars, gvars, bvars, cvars, dvars, evars>>
vars == <<objs, tasks, messages, bg_pc, resp, clock,
          workflow, wf_pc, wf_local, agent_registry, submitted, wf_resp,
          orch_agents, function_to_agent, orch_workflows, orch_ret,
          mcp_agents, mcp_workflows, mcp_resp,
          protocol_tasks, protocol_bg, tasks_db, send_bg, protocol_resp,
          order_params, order_ret,
          workflow_steps, current_step_index, results, called, bw_pc,
          step_result, next_ret,
          registry_cards, agent_card, posted, client_ret,
          in_flight, plain_calls, validate_ret>>

----------------------------------------------------------------------------
(* Bounds *)

MaxTasks == 2       \* Task objects created in one run
MaxMsgs == 1        \* messages stored per task

\* task_id values a request can carry, and the instants of the logical clock
TaskIds == {"t1", "t2"}
Times == {0, 1}

----------------------------------------------------------------------------
(* Values *)

None == "None"
NoError == [message |-> "None", type |-> "None"]

Statuses == {"pending", "in_progress", "completed", "failed", "canceled"}

\* capabilities with a handler registered at start-up (the agents' stores are
\* modelled as one store: task ids are unique across them), and the
\* capabilities a request to the server names: one with a handler, one without
capability_handlers ==
    {"echo", "market_analysis", "assess_trade_risk", "monitor_portfolio_risk",
     "execute_trade", "generate_performance_report"}
Capabilities == {"echo", "unknown"}

\* what a handler can return, and what it can raise (subclasses of Exception)
Results == {"r1"}
Exceptions == {[type |-> "RuntimeError", message |-> "boom"]}
ExceptionClasses == {"ValueError", "RuntimeError"}

\* fields a POST /tasks body may carry besides capability (absent = default)
Bodies == {[status |-> "pending", result |-> None],
           [status |-> "completed", result |-> "r1"]}
CallbackUrls == {None}

\* the Task model with its defaults applied to a request body
Task(id, cap, st, res, err, cb, now) ==
    [task_id |-> id, capability |-> cap, parameters |-> "p",
     priority |-> "medium", callback_url |-> cb, status |-> st,
     result |-> res, error |-> err, created_at |-> now, updated_at |-> now]

Response(op, code) == [op |-> op, code |-> code]

\* the dict a dispatcher or an orchestrator operation returns: the
\* operation called (op) and the return statement that built the dict
\* (via); its "status"; the shape of its "error" entry ("absent", a
\* "string", or a "code_message" dict) with the error code; the function
\* names it lists; the workflow it reports
Envelope(op, via, status, error, code, names, wid, wstatus) ==
    [op |-> op, via |-> via, status |-> status, error |-> error, code |-> code,
     available_functions |-> names, workflow_id |-> wid,
     workflow_status |-> wstatus]

NoEnvelope == Envelope("None", "None", "None", "absent", "None", {}, "None", "None")

Stored(id) == objs[tasks[id]]

----------------------------------------------------------------------------
(* The A2A server *)

ServerInit ==
    /\ objs = <<>>
    /\ tasks = <<>>
    /\ messages = <<>>
    /\ bg_pc = <<>>
    /\ resp = Response("none", 0)
    /\ clock = 0

\* CreateTask with the task stored before the capability is checked
CreateTaskStoreFirst(id, cap, st, res, err, cb) ==
    /\ LET task == Task(id, cap, st, res, err, cb, clock)
           o == Len(objs) + 1
       IN /\ objs' = Append(objs, task)
          /\ tasks' = [i \in DOMAIN tasks \cup {id} |->
                          IF i = id THEN o ELSE tasks[i]]
          /\ messages' = [i \in DOMAIN messages \cup {id} |->
                          IF i = id THEN <<>> ELSE messages[i]]
          /\ IF cap \notin capability_handlers
             THEN /\ resp' = Response("create", 400)
                  /\ bg_pc' = Append(bg_pc, "done")
             ELSE /\ resp' = Response("create", 201)
                  /\ bg_pc' = Append(bg_pc, "queued")
    /\ UNCHANGED clock

\* POST /api/v1/tasks
CreateTask(id, cap, st, res, err, cb) ==
    IF cap \notin capability_handlers
    THEN /\ resp' = Response("create", 400)
         /\ UNCHANGED <<objs, tasks, messages, bg_pc, clock>>
    ELSE /\ LET task == Task(id, cap, st, res, err, cb, clock)
                o == Len(objs) + 1
            IN /\ objs' = Append(objs, task)
               /\ tasks' = [i \in DOMAIN tasks \cup {id} |->
                               IF i = id THEN o ELSE tasks[i]]
               /\ messages' = [i \in DOMAIN messages \cup {id} |->
                               IF i = id THEN <<>> ELSE messages[i]]
               /\ bg_pc' = Append(bg_pc, "queued")
               /\ resp' = Response("create", 201)
         /\ UNCHANGED clock

\* GET /api/v1/tasks/{task_id}
GetTask(id) ==
    /\ resp' = IF id \notin DOMAIN tasks
               THEN Response("get", 404)
               ELSE Response("get", 200)
    /\ UNCHANGED <<objs, tasks, messages, bg_pc, clock>>

\* DeleteTask removing the task and its messages from the stores
DeleteTaskRemoves(id) ==
    IF id \notin DOMAIN tasks
    THEN /\ resp' = Response("delete", 404)
         /\ UNCHANGED <<objs, tasks, messages, bg_pc, clock>>
    ELSE /\ objs' = [objs EXCEPT ![tasks[id]].status = "canceled",
                                 ![tasks[id]].updated_at = clock]
         /\ tasks' = [i \in DOMAIN tasks \ {id} |-> tasks[i]]
         /\ messages' = [i \in DOMAIN messages \ {id} |-> messages[i]]
         /\ resp' = Response("delete", 200)
         /\ UNCHANGED <<bg_pc, clock>>

\* DELETE /api/v1/tasks/{task_id}
DeleteTask(id) ==
    IF id \notin DOMAIN tasks
    THEN /\ resp' = Response("delete", 404)
         /\ UNCHANGED <<objs, tasks, messages, bg_pc, clock>>
    ELSE /\ objs' = [objs EXCEPT ![tasks[id]].status = "canceled",
                                 ![tasks[id]].updated_at = clock]
         /\ resp' = Response("delete", 200)
         /\ UNCHANGED <<tasks, messages, bg_pc, clock>>

\* _process_task up to the await of the handler
ProcessTaskStart(o) ==
    /\ bg_pc[o] = "queued"
    /\ IF objs[o].capability \in capability_handlers
       THEN /\ objs' = [objs EXCEPT ![o].status = "in_progress",
                                    ![o].updated_at = clock]
            /\ bg_pc' = [bg_pc EXCEPT ![o] = "running"]
       ELSE \* no handler: ValueError, caught by the except clause
            /\ objs' = [objs EXCEPT
                   ![o].status = "failed",
                   ![o].error = [message |-> "no handler", type |-> "ValueError"],
                   ![o].updated_at = clock]
            /\ bg_pc' = [bg_pc EXCEPT ![o] = "done"]
    /\ UNCHANGED <<tasks, messages, resp, clock>>

\* the handler returns: result, completed, and the finally clause
HandlerReturns(o, r) ==
    /\ bg_pc[o] = "running"
    /\ objs' = [objs EXCEPT ![o].result = r,
                            ![o].status = "completed",
                            ![o].updated_at = clock]
    /\ bg_pc' = [bg_pc EXCEPT ![o] = "done"]
    /\ UNCHANGED <<tasks, messages, resp, clock>>

\* an except clause that names ValueError only
CaughtValueErrorOnly(e) == e.type = "ValueError"

\* except Exception: which raised values the clause catches
Caught(e) == e.type \in ExceptionClasses

\* HandlerRaises marking every task whose handler is running as failed
HandlerRaisesFailsAll(o, e) ==
    /\ bg_pc[o] = "running"
    /\ objs' = [p \in DOMAIN objs |->
           IF bg_pc[p] = "running"
           THEN [objs[p] EXCEPT !.error = [message |-> e.message, type |-> e.type],
                                !.status = "failed",
                                !.updated_at = clock]
           ELSE objs[p]]
    /\ bg_pc' = [bg_pc EXCEPT ![o] = "done"]
    /\ UNCHANGED <<tasks, messages, resp, clock>>

\* the handler raises: the except clause, and the finally clause
HandlerRaises(o, e) ==
    /\ bg_pc[o] = "running"
    /\ IF Caught(e)
       THEN /\ objs' = [objs EXCEPT
                   ![o].error = [message |-> e.message, type |-> e.type],
                   ![o].status = "failed",
                   ![o].updated_at = clock]
            /\ bg_pc' = [bg_pc EXCEPT ![o] = "done"]
       ELSE /\ objs' = [objs EXCEPT ![o].updated_at = clock]
            /\ bg_pc' = [bg_pc EXCEPT ![o] = "escaped"]
    /\ UNCHANGED <<tasks, messages, resp, clock>>

Tick ==
    /\ clock + 1 \in Times
    /\ clock' = clock + 1
    /\ UNCHANGED <<objs, tasks, messages, bg_pc, resp>>

\* UpdateTask rebuilding the task from the body: created_at is set anew
UpdateTaskRebuilds(id, upd) ==
    IF id \notin DOMAIN tasks
    THEN /\ resp' = Response("update", 404)
         /\ UNCHANGED <<objs, tasks, messages, bg_pc, clock>>
    ELSE /\ objs' = [objs EXCEPT ![tasks[id]] =
               [@ EXCEPT
                  !.status = IF "status" \in DOMAIN upd THEN upd.status ELSE @,
                  !.result = IF "result" \in DOMAIN upd THEN upd.result ELSE @,
                  !.error = IF "error" \in DOMAIN upd THEN upd.error ELSE @,
                  !.created_at = clock,
                  !.updated_at = clock]]
         /\ resp' = Response("update", 200)
         /\ UNCHANGED <<tasks, messages, bg_pc, clock>>

\* PUT /api/v1/tasks/{task_id}: upd holds the allowed fields the body carries
UpdateTask(id, upd) ==
    IF id \notin DOMAIN tasks
    THEN /\ resp' = Response("update", 404)
         /\ UNCHANGED <<objs, tasks, messages, bg_pc, clock>>
    ELSE /\ objs' = [objs EXCEPT ![tasks[id]] =
               [@ EXCEPT
                  !.status = IF "status" \in DOMAIN upd THEN upd.status ELSE @,
                  !.result = IF "result" \in DOMAIN upd THEN upd.result ELSE @,
                  !.error = IF "error" \in DOMAIN upd THEN upd.error ELSE @,
                  !.updated_at = clock]]
         /\ resp' = Response("update", 200)
         /\ UNCHANGED <<tasks, messages, bg_pc, clock>>

\* bodies of PUT requests: any subset of status, result, error
Updates ==
    {[status |-> "completed"], [status |-> "pending"], [result |-> "r1"],
     [error |-> NoError], [status |-> "failed", error |-> [message |-> "m", type |-> "t"]],
     [status |-> "completed", result |-> "r1"]}

\* POST /api/v1/tasks/{task_id}/messages; mid is the task_id in the body
SendMessage(id, mid, content) ==
    IF id \notin DOMAIN tasks
    THEN /\ resp' = Response("send_message", 404)
         /\ UNCHANGED <<objs, tasks, messages, bg_pc, clock>>
    ELSE IF mid # id
    THEN /\ resp' = Response("send_message", 400)
         /\ UNCHANGED <<objs, tasks, messages, bg_pc, clock>>
    ELSE /\ Len(messages[id]) < MaxMsgs
         /\ messages' = [messages EXCEPT ![id] =
               Append(@, [task_id |-> mid, content |-> content, timestamp |-> clock])]
         /\ resp' = Response("send_message", 201)
         /\ UNCHANGED <<objs, tasks, bg_pc, clock>>

Contents == {"m1"}

\* the callback_url a POST /tasks body may carry (None: absent)
CallbackTargets == {None, "http://callback"}

\* the task ids for which the server has sent a notification to the
\* callback_url: the branch of _process_task for a task with a callback_url
\* is empty and delete_task has none, so no request is ever sent
callbacks_sent == {}

\* the payload A2AClient.create_task posts: a fresh uuid4, status pending
ClientCreateTask(id, cap) ==
    /\ id \notin DOMAIN tasks
    /\ CreateTask(id, cap, "pending", None, NoError, None)

\* the bound on the Task objects of a run: an accepted creation needs room
StoreHasRoom(cap) == cap \in capability_handlers => Len(objs) < MaxTasks

----------------------------------------------------------------------------
(* The MCP orchestration agent: agent registry and workflow store *)

MaxWorkflows == 3     \* workflows created in one run

\* the ids, function lists and endpoints register_agent is called with
AgentIds == {"market_analysis_agent", "market_data_agent"}
Functions == {"analyze_market_trends", "execute_trade"}
Endpoints == {None, "/custom"}

\* self.agent_endpoints
agent_endpoints ==
    [market_analysis_agent |-> "/api/v1/agent", default |-> "/api/agent"]

NoAgent == [id |-> None, functions |-> {}, endpoint |-> None, status |-> None]

\* what a call on the agent returned, or that it raised
Return(op, outcome, agent, function_name, wid) ==
    [op |-> op, outcome |-> outcome, agent |-> agent,
     function_name |-> function_name, workflow_id |-> wid]

OrchInit ==
    /\ orch_agents = <<>>
    /\ function_to_agent = <<>>
    /\ orch_workflows = <<>>
    /\ orch_ret = Return("none", "none", NoAgent, None, 0)

\* self.agents as a dict: the position of a key, 0 when it is absent
AgentIndex(id) ==
    IF \E i \in DOMAIN orch_agents : orch_agents[i].id = id
    THEN CHOOSE i \in DOMAIN orch_agents : orch_agents[i].id = id
    ELSE 0

\* the endpoint register_agent stores: the one given, else the one
\* configured for the agent id, else the default
EndpointFor(id, endpoint) ==
    IF endpoint # None THEN endpoint
    ELSE IF id \in DOMAIN agent_endpoints THEN agent_endpoints[id]
    ELSE agent_endpoints["default"]

\* register_agent that leaves an agent already registered as it is
RegisterAgentKeepExisting(id, functions, endpoint) ==
    LET agent == [id |-> id, functions |-> functions,
                  endpoint |-> EndpointFor(id, endpoint),
                  status |-> "AVAILABLE"]
    IN /\ orch_agents' = IF AgentIndex(id) = 0
                         THEN Append(orch_agents, agent)
                         ELSE orch_agents
       /\ function_to_agent' =
             [f \in DOMAIN function_to_agent \cup functions |->
                 IF f \in functions THEN id ELSE function_to_agent[f]]
       /\ orch_ret' = Return("register_agent", "returned", agent, None, 0)
       /\ UNCHANGED orch_workflows

\* register_agent: the Agent is built from agent_data and stored under its
\* id, and each of its functions is mapped to it
RegisterAgent(id, functions, endpoint) ==
    LET agent == [id |-> id, functions |-> functions,
                  endpoint |-> EndpointFor(id, endpoint),
                  status |-> "AVAILABLE"]
    IN /\ orch_agents' = IF AgentIndex(id) = 0
                         THEN Append(orch_agents, agent)
                         ELSE [orch_agents EXCEPT ![AgentIndex(id)] = agent]
       /\ function_to_agent' =
             [f \in DOMAIN function_to_agent \cup functions |->
                 IF f \in functions THEN id ELSE function_to_agent[f]]
       /\ orch_ret' = Return("register_agent", "returned", agent, None, 0)
       /\ UNCHANGED orch_workflows

\* get_agent_by_function: the id function_to_agent holds for the name
get_agent_by_function(function_name) ==
    IF function_name \in DOMAIN function_to_agent
    THEN function_to_agent[function_name]
    ELSE None

\* the params of execute_function: json.dumps accepts them, or raises
FunctionParams == {"serialisable", "not_serialisable"}

\* _simulate_function_result raises only where it calls json.dumps, which
\* it does for a function name without one of the known prefixes
SimulationRaises(function_name, params) ==
    /\ function_name \notin {"analyze_market_trends"}
    /\ params = "not_serialisable"

\* execute_function: ValueError when no agent is mapped to the function;
\* otherwise the agent is BUSY during the call and AVAILABLE after it, or
\* ERROR when the call raised
ExecuteFunction(function_name, params) ==
    LET id == get_agent_by_function(function_name)
    IN /\ IF id = None
          THEN /\ orch_ret' = Return("execute_function", "raised", NoAgent,
                                     function_name, 0)
               /\ UNCHANGED orch_agents
          ELSE LET i == AgentIndex(id)
                   st == IF SimulationRaises(function_name, params)
                         THEN "ERROR" ELSE "AVAILABLE"
               IN /\ orch_agents' = [orch_agents EXCEPT ![i].status = st]
                  /\ orch_ret' = Return("execute_function",
                        IF st = "ERROR" THEN "raised" ELSE "returned",
                        orch_agents'[i], function_name, 0)
       /\ UNCHANGED <<function_to_agent, orch_workflows>>

\* the threads that may be inside execute_function at the same time
DispatchThreads == {"t1", "t2"}

\* a thread outside execute_function
NoDispatch ==
    [pc |-> "idle", agent |-> None, function_name |-> None, params |-> None,
     replaced |-> FALSE]

DispatchInit == in_flight = [t \in DispatchThreads |-> NoDispatch]

\* execute_function up to time.sleep: ValueError when no agent is mapped to
\* the function, otherwise the Agent found is marked BUSY
DispatchBegin(t, function_name, params) ==
    /\ in_flight[t].pc = "idle"
    /\ LET id == get_agent_by_function(function_name)
       IN IF id = None
          THEN /\ orch_ret' = Return("execute_function", "raised", NoAgent,
                                     function_name, 0)
               /\ UNCHANGED <<orch_agents, in_flight>>
          ELSE /\ orch_agents' = [orch_agents EXCEPT ![AgentIndex(id)].status = "BUSY"]
               /\ in_flight' = [in_flight EXCEPT ![t] =
                     [pc |-> "running", agent |-> id,
                      function_name |-> function_name, params |-> params,
                      replaced |-> FALSE]]
               /\ UNCHANGED orch_ret
    /\ UNCHANGED <<function_to_agent, orch_workflows>>

\* execute_function after time.sleep: the Agent the thread holds is marked
\* AVAILABLE, or ERROR when _simulate_function_result raised; an Agent that
\* register_agent has replaced meanwhile is no longer the one in self.agents
DispatchEnd(t) ==
    /\ in_flight[t].pc = "running"
    /\ LET d == in_flight[t]
           i == AgentIndex(d.agent)
           st == IF SimulationRaises(d.function_name, d.params)
                 THEN "ERROR" ELSE "AVAILABLE"
       IN /\ orch_agents' = IF d.replaced THEN orch_agents
                            ELSE [orch_agents EXCEPT ![i].status = st]
          /\ orch_ret' = Return("execute_function",
                IF st = "ERROR" THEN "raised" ELSE "returned",
                [orch_agents[i] EXCEPT !.status = st], d.function_name, 0)
    /\ in_flight' = [in_flight EXCEPT ![t] = NoDispatch]
    /\ UNCHANGED <<function_to_agent, orch_workflows>>

\* register_agent while threads are inside execute_function: a thread that
\* holds the Agent stored under the id keeps the object that is replaced
DispatchRegisterAgent(id, functions, endpoint) ==
    /\ RegisterAgent(id, functions, endpoint)
    /\ in_flight' = [t \in DispatchThreads |->
          IF in_flight[t].pc = "running" /\ in_flight[t].agent = id
          THEN [in_flight[t] EXCEPT !.replaced = TRUE]
          ELSE in_flight[t]]

\* what get_workflow of a workflow module builds: the steps of the
\* workflow, each with the ids of the steps it depends on
WorkflowModules ==
    [chain |-> <<[id |-> "s1", depends_on |-> {}],
                 [id |-> "s2", depends_on |-> {"s1"}]>>,
     fork |-> <<[id |-> "s1", depends_on |-> {}],
                [id |-> "s2", depends_on |-> {}]>>,
     cyclic |-> <<[id |-> "s1", depends_on |-> {"s2"}],
                  [id |-> "s2", depends_on |-> {"s1"}]>>,
     dangling |-> <<[id |-> "s1", depends_on |-> {}],
                    [id |-> "s2", depends_on |-> {"s9"}]>>]

workflow_modules == DOMAIN WorkflowModules
WorkflowTypes == workflow_modules \cup {"no_such_module"}

\* the parameters of create_workflow: get_workflow accepts them, or raises
\* for a missing required parameter
CreateParams == {"complete", "missing_required"}

\* create_workflow: ValueError for an unknown type or when get_workflow
\* raises; otherwise the workflow get_workflow built is stored under its id
CreateWorkflow(workflow_type, parameters) ==
    /\ IF workflow_type \notin workflow_modules \/ parameters = "missing_required"
       THEN /\ orch_ret' = Return("create_workflow", "raised", NoAgent, None, 0)
            /\ UNCHANGED orch_workflows
       ELSE LET wid == Len(orch_workflows) + 1
                wf == [id |-> wid, type |-> workflow_type, status |-> "CREATED",
                       steps |-> [k \in DOMAIN WorkflowModules[workflow_type] |->
                          [id |-> WorkflowModules[workflow_type][k].id,
                           depends_on |-> WorkflowModules[workflow_type][k].depends_on,
                           status |-> "PENDING"]]]
            IN /\ orch_workflows' = Append(orch_workflows, wf)
               /\ orch_ret' = Return("create_workflow", "returned", NoAgent, None, wid)
    /\ UNCHANGED <<orch_agents, function_to_agent>>

\* the bound on the workflow store
WorkflowStoreHasRoom == Len(orch_workflows) < MaxWorkflows

----------------------------------------------------------------------------
(* The function-protocol orchestration agent *)

MaxMcpWorkflows == 1   \* workflows executed in one run

\* self.function_registry after _register_built_in_functions
function_registry ==
    {"get_agent_status", "get_all_agents_status", "register_agent",
     "execute_workflow", "get_workflow_status"}

\* the steps _setup_market_analysis_workflow and
\* _setup_portfolio_rebalance_workflow add
McpWorkflowSteps ==
    [market_analysis_and_trade |->
        <<"collect_market_data", "analyze_market_trends",
          "identify_trading_opportunities", "execute_trades", "update_portfolio">>,
     portfolio_rebalance |->
        <<"analyze_current_portfolio", "determine_optimal_allocation",
          "plan_rebalance_trades", "execute_rebalance_trades",
          "verify_portfolio_changes">>]

\* what a call_function request carries: the function name, and arguments
\* that fit the function's signature or do not (well_formed)
McpFunctionNames == function_registry \cup {"no_such_function"}
McpAgentIds == {"market_data_agent"}
McpAgentTypes == {"MarketData", "Portfolio"}
McpWorkflowNames == {"market_analysis_and_trade", "portfolio_rebalance",
                     "no_such_workflow"}
McpWorkflowIds == {1, 2}
McpArguments ==
    [well_formed : BOOLEAN, agent_id : McpAgentIds, agent_type : McpAgentTypes,
     workflow_name : McpWorkflowNames, workflow_id : McpWorkflowIds]

McpInit ==
    /\ mcp_agents = <<>>
    /\ mcp_workflows = <<>>
    /\ mcp_resp = NoEnvelope

McpEnvelope(via, status, code, wid, wstatus) ==
    Envelope("call_function", via, status,
             IF status = "error" THEN "code_message" ELSE "absent",
             code, {}, wid, wstatus)

\* register_agent: a new id gets an entry; an existing entry only has its
\* heartbeat refreshed
McpRegisterAgent(agent_id, agent_type) ==
    /\ mcp_agents' =
          IF agent_id \in DOMAIN mcp_agents
          THEN [mcp_agents EXCEPT ![agent_id].last_heartbeat = "updated"]
          ELSE [a \in DOMAIN mcp_agents \cup {agent_id} |->
                   IF a = agent_id
                   THEN [agent_type |-> agent_type, last_heartbeat |-> "registered"]
                   ELSE mcp_agents[a]]
    /\ mcp_resp' = McpEnvelope("returned", "success", None, None, None)
    /\ UNCHANGED mcp_workflows

\* get_agent_status
McpGetAgentStatus(agent_id) ==
    /\ mcp_resp' = IF agent_id \notin DOMAIN mcp_agents
                   THEN McpEnvelope("returned", "error", "agent_not_found", None, None)
                   ELSE McpEnvelope("returned", "success", None, None, None)
    /\ UNCHANGED <<mcp_agents, mcp_workflows>>

\* get_all_agents_status
McpGetAllAgentsStatus ==
    /\ mcp_resp' = McpEnvelope("returned", "success", None, None, None)
    /\ UNCHANGED <<mcp_agents, mcp_workflows>>

\* Workflow.update_status: the status derived from the steps
UpdatedStatus(steps) ==
    IF \E k \in DOMAIN steps : steps[k] = "failed" THEN "failed"
    ELSE IF steps # <<>> /\ \A k \in DOMAIN steps : steps[k] = "completed"
         THEN "completed"
    ELSE IF \E k \in DOMAIN steps : steps[k] = "in_progress" THEN "in_progress"
    ELSE "pending"

\* execute_workflow: an unknown name is answered with an error; otherwise
\* the workflow is built, started and stored, and its first step is started
McpExecuteWorkflow(workflow_name) ==
    IF workflow_name \notin DOMAIN McpWorkflowSteps
    THEN /\ mcp_resp' = McpEnvelope("returned", "error", "unknown_workflow", None, None)
         /\ UNCHANGED <<mcp_agents, mcp_workflows>>
    ELSE LET wid == Len(mcp_workflows) + 1
             steps == [k \in DOMAIN McpWorkflowSteps[workflow_name] |->
                          IF k = 1 THEN "in_progress" ELSE "pending"]
         IN /\ Len(mcp_workflows) < MaxMcpWorkflows
            /\ mcp_workflows' = Append(mcp_workflows,
                  [workflow_id |-> wid, workflow_name |-> workflow_name,
                   status |-> "in_progress", steps |-> steps])
            /\ mcp_resp' = McpEnvelope("returned", "success", None, wid, "in_progress")
            /\ UNCHANGED mcp_agents

\* get_workflow_status: the status is updated from the steps and returned
McpGetWorkflowStatus(workflow_id) ==
    IF workflow_id \notin DOMAIN mcp_workflows
    THEN /\ mcp_resp' = McpEnvelope("returned", "error", "workflow_not_found", None, None)
         /\ UNCHANGED <<mcp_agents, mcp_workflows>>
    ELSE LET st == UpdatedStatus(mcp_workflows[workflow_id].steps)
         IN /\ mcp_workflows' = [mcp_workflows EXCEPT ![workflow_id].status = st]
            /\ mcp_resp' = McpEnvelope("returned", "success", None, workflow_id, st)
            /\ UNCHANGED mcp_agents

\* call_function: an unknown name is answered with function_not_found;
\* otherwise the function is called with the arguments as keywords, and an
\* exception (here: arguments that do not fit the signature) is answered
\* with execution_error
CallFunction(function_name, arguments) ==
    IF function_name \notin function_registry
    THEN /\ mcp_resp' = McpEnvelope("not_found", "error", "function_not_found", None, None)
         /\ UNCHANGED <<mcp_agents, mcp_workflows>>
    ELSE IF ~arguments.well_formed
    THEN /\ mcp_resp' = McpEnvelope("raised", "error", "execution_error", None, None)
         /\ UNCHANGED <<mcp_agents, mcp_workflows>>
    ELSE CASE function_name = "register_agent" ->
                 McpRegisterAgent(arguments.agent_id, arguments.agent_type)
           [] function_name = "get_agent_status" ->
                 McpGetAgentStatus(arguments.agent_id)
           [] function_name = "get_all_agents_status" ->
                 McpGetAllAgentsStatus
           [] function_name = "execute_workflow" ->
                 McpExecuteWorkflow(arguments.workflow_name)
           [] function_name = "get_workflow_status" ->
                 McpGetWorkflowStatus(arguments.workflow_id)

\* the step_index of simulate_workflow_progress, when one is given
StepIndexes == 0..5

\* WorkflowStep.complete alone: the successor is not started
CompleteOnly(steps, i) ==
    [k \in DOMAIN steps |-> IF k = i THEN "completed" ELSE steps[k]]

\* WorkflowStep.complete and WorkflowStep.start on the steps of a workflow
CompleteAndStartNext(steps, i) ==
    [k \in DOMAIN steps |->
        IF k = i THEN "completed"
        ELSE IF k = i + 1 THEN "in_progress"
        ELSE steps[k]]

\* simulate_workflow_progress: the step at step_index (given: step_index is
\* not None), or else the first
\* step in progress, is completed and its successor started; then the
\* workflow's status is updated
SimulateWorkflowProgress(workflow_id, given, step_index) ==
    /\ workflow_id \in DOMAIN mcp_workflows
    /\ LET steps == mcp_workflows[workflow_id].steps
           running == {k \in DOMAIN steps : steps[k] = "in_progress"}
           after ==
              IF given /\ step_index < Len(steps)
              THEN CompleteAndStartNext(steps, step_index + 1)
              ELSE IF running = {} THEN steps
              ELSE CompleteAndStartNext(steps,
                      CHOOSE k \in running : \A j \in running : k <= j)
       IN mcp_workflows' = [mcp_workflows EXCEPT
             ![workflow_id].steps = after,
             ![workflow_id].status = UpdatedStatus(after)]
    /\ UNCHANGED <<mcp_agents, mcp_resp>>

MaxAdvances == 6   \* calls of simulate_workflow_progress counted per workflow

AdvanceInit == plain_calls = [w \in McpWorkflowIds |-> 0]

\* simulate_workflow_progress called without a step index, counted
AdvanceNextStep(workflow_id) ==
    /\ plain_calls[workflow_id] < MaxAdvances
    /\ SimulateWorkflowProgress(workflow_id, FALSE, 0)
    /\ plain_calls' = [plain_calls EXCEPT ![workflow_id] = @ + 1]

----------------------------------------------------------------------------
(* The protocol server (src/src/a2a/server.py): the task routes of the     *)
(* A2AServer instance and the tasks/send routes on the module's tasks_db   *)

MaxSends == 2       \* tasks/send requests accepted in one run

\* task ids: the server's uuid4 for a created task, the caller's for a sent one
ProtocolTaskIds == {"p1", "p2"}

\* messages a tasks/send request carries: a user message whose text part has
\* a text, and one whose text part has none
SentMessages == {"user_text", "user_no_text"}

\* the routes in the order _create_app registers them (those on tasks)
routes ==
    <<[method |-> "POST",   path |-> "/api/v1/tasks",           endpoint |-> "create_task"],
      [method |-> "GET",    path |-> "/api/v1/tasks/{task_id}", endpoint |-> "get_task"],
      [method |-> "PUT",    path |-> "/api/v1/tasks/{task_id}", endpoint |-> "update_task"],
      [method |-> "DELETE", path |-> "/api/v1/tasks/{task_id}", endpoint |-> "cancel_task"],
      [method |-> "POST",   path |-> "/api/v1/tasks/send",      endpoint |-> "tasks_send"],
      [method |-> "GET",    path |-> "/api/v1/tasks/{task_id}", endpoint |-> "tasks_get"],
      [method |-> "DELETE", path |-> "/api/v1/tasks/{task_id}", endpoint |-> "tasks_cancel"]>>

\* the router: the first route registered for the method and the path
RouteFor(method, path) ==
    LET matching == {k \in DOMAIN routes :
                        routes[k].method = method /\ routes[k].path = path}
    IN routes[CHOOSE k \in matching : \A j \in matching : k <= j].endpoint

\* a response: the endpoint that produced it, its status code, the task_id
\* of the request (of the created task for create_task) and the status of
\* the task it returns
ProtocolResponse(endpoint, code, task_id, status) ==
    [endpoint |-> endpoint, code |-> code, task_id |-> task_id, status |-> status]

ProtocolInit ==
    /\ protocol_tasks = <<>>
    /\ protocol_bg = <<>>
    /\ tasks_db = <<>>
    /\ send_bg = <<>>
    /\ protocol_resp = ProtocolResponse("none", 0, None, None)

\* POST /api/v1/tasks: a Task with a fresh task_id is stored and _process_task
\* is queued for it
ProtocolCreateTask(id, cap) ==
    IF cap \notin capability_handlers
    THEN /\ protocol_resp' = ProtocolResponse("create_task", 400, None, None)
         /\ UNCHANGED <<protocol_tasks, protocol_bg, tasks_db, send_bg>>
    ELSE /\ id \notin DOMAIN protocol_tasks \cup DOMAIN tasks_db
         /\ protocol_tasks' = [i \in DOMAIN protocol_tasks \cup {id} |->
               IF i = id THEN [status |-> "pending", result |-> None]
               ELSE protocol_tasks[i]]
         /\ protocol_bg' = [i \in DOMAIN protocol_bg \cup {id} |->
               IF i = id THEN "queued" ELSE protocol_bg[i]]
         /\ protocol_resp' = ProtocolResponse("create_task", 201, id, "pending")
         /\ UNCHANGED <<tasks_db, send_bg>>

\* _process_task up to the await of the handler
ProtocolProcessStart(id) ==
    /\ id \in DOMAIN protocol_bg /\ protocol_bg[id] = "queued"
    /\ protocol_tasks' = [protocol_tasks EXCEPT ![id].status = "processing"]
    /\ protocol_bg' = [protocol_bg EXCEPT ![id] = "running"]
    /\ UNCHANGED <<tasks_db, send_bg, protocol_resp>>

\* the handler returns (ok) or raises
ProtocolProcessEnd(id, ok) ==
    /\ id \in DOMAIN protocol_bg /\ protocol_bg[id] = "running"
    /\ protocol_tasks' = [protocol_tasks EXCEPT ![id] =
          IF ok THEN [status |-> "completed", result |-> "r1"]
          ELSE [status |-> "failed", result |-> "error"]]
    /\ protocol_bg' = [protocol_bg EXCEPT ![id] = "done"]
    /\ UNCHANGED <<tasks_db, send_bg, protocol_resp>>

\* get_task: the task of self.tasks
get_task(id) ==
    /\ protocol_resp' =
          IF id \notin DOMAIN protocol_tasks
          THEN ProtocolResponse("get_task", 404, id, None)
          ELSE ProtocolResponse("get_task", 200, id, protocol_tasks[id].status)
    /\ UNCHANGED <<protocol_tasks, protocol_bg, tasks_db, send_bg>>

\* tasks_get: the task of tasks_db
tasks_get(id) ==
    /\ protocol_resp' =
          IF id \notin DOMAIN tasks_db
          THEN ProtocolResponse("tasks_get", 404, id, None)
          ELSE ProtocolResponse("tasks_get", 200, id, tasks_db[id].status)
    /\ UNCHANGED <<protocol_tasks, protocol_bg, tasks_db, send_bg>>

\* cancel_task: the task of self.tasks is marked canceled
cancel_task(id) ==
    IF id \notin DOMAIN protocol_tasks
    THEN /\ protocol_resp' = ProtocolResponse("cancel_task", 404, id, None)
         /\ UNCHANGED <<protocol_tasks, protocol_bg, tasks_db, send_bg>>
    ELSE /\ protocol_tasks' = [protocol_tasks EXCEPT ![id].status = "canceled"]
         /\ protocol_resp' = ProtocolResponse("cancel_task", 200, id, None)
         /\ UNCHANGED <<protocol_bg, tasks_db, send_bg>>

\* tasks_cancel: the task of tasks_db is marked canceled
tasks_cancel(id) ==
    IF id \notin DOMAIN tasks_db
    THEN /\ protocol_resp' = ProtocolResponse("tasks_cancel", 404, id, None)
         /\ UNCHANGED <<protocol_tasks, protocol_bg, tasks_db, send_bg>>
    ELSE /\ tasks_db' = [tasks_db EXCEPT ![id].status = "canceled"]
         /\ protocol_resp' = ProtocolResponse("tasks_cancel", 200, id, "canceled")
         /\ UNCHANGED <<protocol_tasks, protocol_bg, send_bg>>

\* GET /api/v1/tasks/{task_id}, as routed
GetRequest(id) ==
    LET endpoint == RouteFor("GET", "/api/v1/tasks/{task_id}")
    IN CASE endpoint = "get_task" -> get_task(id)
         [] endpoint = "tasks_get" -> tasks_get(id)

\* DELETE /api/v1/tasks/{task_id}, as routed
DeleteRequest(id) ==
    LET endpoint == RouteFor("DELETE", "/api/v1/tasks/{task_id}")
    IN CASE endpoint = "cancel_task" -> cancel_task(id)
         [] endpoint = "tasks_cancel" -> tasks_cancel(id)

\* the tasks/send requests accepted so far: each queued one process_task
SendsAccepted == Len(send_bg)

\* POST /api/v1/tasks/send: the task is created in tasks_db as submitted, or
\* the message is added to the existing one, which becomes working; the
\* current state is returned and process_task is queued
tasks_send(id, message) ==
    /\ tasks_db' =
          IF id \notin DOMAIN tasks_db
          THEN [i \in DOMAIN tasks_db \cup {id} |->
                   IF i = id THEN [status |-> "submitted", messages |-> <<message>>]
                   ELSE tasks_db[i]]
          ELSE [tasks_db EXCEPT ![id].messages = Append(@, message),
                                ![id].status = "working"]
    /\ send_bg' = Append(send_bg, [task_id |-> id, pc |-> "queued"])
    /\ protocol_resp' = ProtocolResponse("tasks_send", 200, id, tasks_db'[id].status)
    /\ UNCHANGED <<protocol_tasks, protocol_bg>>

\* process_task, run in the background after the response of tasks_send, in
\* a worker thread: first the task becomes working
process_task_start(k) ==
    /\ k \in DOMAIN send_bg /\ send_bg[k].pc = "queued"
    /\ tasks_db' = [tasks_db EXCEPT ![send_bg[k].task_id].status = "working"]
    /\ send_bg' = [send_bg EXCEPT ![k].pc = "running"]
    /\ UNCHANGED <<protocol_tasks, protocol_bg, protocol_resp>>

\* then the latest message is answered and the task is completed; a user
\* message whose text part has no text raises, and the task is failed with
\* an error message added
process_task_end(k) ==
    /\ k \in DOMAIN send_bg /\ send_bg[k].pc = "running"
    /\ LET id == send_bg[k].task_id
           latest == tasks_db[id].messages[Len(tasks_db[id].messages)]
       IN tasks_db' = [tasks_db EXCEPT ![id] =
             IF latest = "user_no_text"
             THEN [status |-> "failed", messages |-> Append(@.messages, "error_response")]
             ELSE IF latest = "user_text"
             THEN [status |-> "completed", messages |-> Append(@.messages, "agent_response")]
             ELSE [status |-> "completed", messages |-> @.messages]]
    /\ send_bg' = [send_bg EXCEPT ![k].pc = "done"]
    /\ UNCHANGED <<protocol_tasks, protocol_bg, protocol_resp>>

\* the "role" of a message of tasks_db: the client sends user messages, and
\* create_agent_response builds the ones the server appends
Role(message) == IF message \in SentMessages THEN "user" ELSE "assistant"

\* the messages create_agent_response built
ServerResponses == {"agent_response", "error_response"}

\* the client's get_latest_agent_message on a task snapshot: the last
\* message whose role is "agent", or None
get_latest_agent_message(task) ==
    LET agent_messages == {k \in DOMAIN task.messages : Role(task.messages[k]) = "agent"}
    IN IF agent_messages # {}
       THEN task.messages[CHOOSE k \in agent_messages : \A j \in agent_messages : j <= k]
       ELSE None

----------------------------------------------------------------------------
(* The crypto order workflow: get_workflow *)

Absent == "absent"      \* a key the parameters do not have

\* values of 'amount': a number (num, in hundredths), the float nan, a
\* string (text), None; or no 'amount' key
Amount(kind, num, text) == [kind |-> kind, num |-> num, text |-> text]
Amounts ==
    {Amount(Absent, 0, ""), Amount("number", 100000, ""), Amount("number", 0, ""),
     Amount("number", -10000, ""), Amount("nan", 0, ""), Amount("none", 0, ""),
     Amount("string", 0, "2.5"), Amount("string", 0, "-1"),
     Amount("string", 0, "nan"), Amount("string", 0, "not_a_number")}

\* the parameter bags get_workflow is called with
OrderParameters ==
    [asset : {Absent, "BTC"},
     order_type : {Absent, "MARKET", "LIMIT", "STOP_LIMIT"},
     side : {Absent, "BUY", "SELL", "HOLD"},
     amount : Amounts,
     portfolio_id : {Absent, "test-portfolio"},
     price : {Absent, "2850.00"}]

\* float(x): the value (num, in hundredths, or nan), or the exception raised
FloatOf(num, nan, raises) == [num |-> num, nan |-> nan, raises |-> raises]
Float(a) ==
    CASE a.kind = "number" -> FloatOf(a.num, FALSE, None)
      [] a.kind = "nan" -> FloatOf(0, TRUE, None)
      [] a.kind = "none" -> FloatOf(0, FALSE, "TypeError")
      [] a.kind = "string" ->
            CASE a.text = "2.5" -> FloatOf(250, FALSE, None)
              [] a.text = "-1" -> FloatOf(-100, FALSE, None)
              [] a.text = "nan" -> FloatOf(0, TRUE, None)
              [] OTHER -> FloatOf(0, FALSE, "ValueError")

\* x <= 0 on floats: false when x is nan
LessOrEqualZero(f) == ~f.nan /\ f.num <= 0

required_params == <<"asset", "order_type", "side", "amount", "portfolio_id">>
valid_order_types == {"MARKET", "LIMIT"}
valid_sides == {"BUY", "SELL"}

HasKey(p, k) == IF k = "amount" THEN p.amount.kind # Absent ELSE p[k] # Absent

\* the steps add_step appends, in order
OrderSteps ==
    <<"validate_order_params", "check_available_funds", "calculate_order_details",
      "submit_order", "monitor_order_status", "update_portfolio">>

\* what a call of get_workflow ends with: the exception raised and its
\* message, or the steps of the workflow returned
OrderReturn(op, raised, message, steps) ==
    [op |-> op, raised |-> raised, message |-> message, steps |-> steps]
Raise(message) == OrderReturn("get_workflow", "ValueError", message, <<>>)

\* the block that validates the amount: the ValueError raised for an amount
\* <= 0 is raised inside the try block and caught by its except clause
ValidateAmount(a) ==
    LET f == Float(a)
        raised_in_try ==
           IF f.raises # None THEN f.raises
           ELSE IF LessOrEqualZero(f) THEN "ValueError"
           ELSE None
    IN IF raised_in_try \in {"ValueError", "TypeError"}
       THEN "Amount must be a positive number"
       ELSE None

get_workflow(p) ==
    LET missing == {k \in DOMAIN required_params : ~HasKey(p, required_params[k])}
    IN IF missing # {}
       THEN Raise("Missing required parameter")
       ELSE IF p.order_type \notin valid_order_types
       THEN Raise("Invalid order_type")
       ELSE IF p.side \notin valid_sides
       THEN Raise("Invalid side")
       ELSE IF ValidateAmount(p.amount) # None
       THEN Raise(ValidateAmount(p.amount))
       ELSE IF p.order_type = "LIMIT" /\ p.price = Absent
       THEN Raise("Price is required for LIMIT orders")
       ELSE OrderReturn("get_workflow", None, None, OrderSteps)

NoParameters ==
    [asset |-> Absent, order_type |-> Absent, side |-> Absent,
     amount |-> Amount(Absent, 0, ""), portfolio_id |-> Absent, price |-> Absent]

OrderInit ==
    /\ order_params = NoParameters
    /\ order_ret = OrderReturn("none", None, None, <<>>)

\* a call of get_workflow with a parameter bag
GetWorkflow(p) ==
    /\ order_params' = p
    /\ order_ret' = get_workflow(p)

\* CryptoOrderWorkflow(parameters=p): the object keeps the parameter bag as
\* it is given (an empty bag stays the empty bag)
CryptoOrderWorkflow(parameters) ==
    [parameters |-> IF parameters = NoParameters THEN NoParameters ELSE parameters]

\* validate_parameters without the check of the price of a LIMIT order
ValidateParametersWithoutPrice(self) ==
    LET p == self.parameters
        f == Float(p.amount)
    IN IF \E k \in DOMAIN required_params : ~HasKey(p, required_params[k])
       THEN FALSE
       ELSE IF p.order_type \notin valid_order_types
       THEN FALSE
       ELSE IF p.side \notin valid_sides
       THEN FALSE
       ELSE IF f.raises \in {"ValueError", "TypeError"}
       THEN FALSE
       ELSE IF LessOrEqualZero(f)
       THEN FALSE
       ELSE TRUE

\* CryptoOrderWorkflow.validate_parameters: False at the first check that
\* fails, True when all pass
validate_parameters(self) ==
    LET p == self.parameters
        f == Float(p.amount)
    IN IF \E k \in DOMAIN required_params : ~HasKey(p, required_params[k])
       THEN FALSE
       ELSE IF p.order_type \notin valid_order_types
       THEN FALSE
       ELSE IF p.side \notin valid_sides
       THEN FALSE
       ELSE IF f.raises \in {"ValueError", "TypeError"}
       THEN FALSE
       ELSE IF LessOrEqualZero(f)
       THEN FALSE
       ELSE IF p.order_type = "LIMIT" /\ p.price = Absent
       THEN FALSE
       ELSE TRUE

\* no call of validate_parameters made yet
NoValidation == [op |-> "none", returned |-> FALSE]

ValidatorsInit == validate_ret = NoValidation

\* one parameter bag given to both validators: get_workflow(p) and
\* CryptoOrderWorkflow(parameters=p).validate_parameters()
ValidateBoth(p) ==
    /\ order_params' = p
    /\ order_ret' = get_workflow(p)
    /\ validate_ret' = [op |-> "validate_parameters",
                        returned |-> validate_parameters(CryptoOrderWorkflow(p))]

----------------------------------------------------------------------------
(* BaseWorkflow: the step runner *)

MaxSteps == 4       \* steps a workflow defines
MaxNextCalls == 6   \* calls of execute_next_step made by the owner of a workflow

\* no call of execute_next_step made yet
NoNextCall == [n |-> 0, status |-> None, index |-> 0]

\* what the function of a step does when called: it returns, or it raises
StepOutcomes == {"returns", "raises"}

\* __init__ before define_steps has added a step
BaseWorkflowInit ==
    /\ workflow_steps = <<>>
    /\ current_step_index = 0
    /\ results = <<>>
    /\ called = <<>>
    /\ bw_pc = "new"
    /\ step_result = <<>>
    /\ next_ret = NoNextCall

\* add_step, as define_steps calls it on a workflow that has not run
add_step ==
    /\ bw_pc = "new"
    /\ Len(workflow_steps) < MaxSteps
    /\ workflow_steps' = Append(workflow_steps, "PENDING")
    /\ step_result' = Append(step_result, None)
    /\ UNCHANGED <<current_step_index, results, called, bw_pc, next_ret>>

\* execute_step: the dict returned, and the status and the result the step
\* is left with; step_index is 0-based
execute_step(step_index, outcome) ==
    IF step_index < 0 \/ step_index >= Len(workflow_steps)
    THEN [status |-> "error", steps |-> workflow_steps, called |-> <<>>,
          step_result |-> step_result]
    ELSE IF outcome = "returns"
    THEN [status |-> "success",
          steps |-> [workflow_steps EXCEPT ![step_index + 1] = "COMPLETED"],
          called |-> <<step_index + 1>>,
          step_result |-> [step_result EXCEPT ![step_index + 1] = "result"]]
    ELSE [status |-> "error",
          steps |-> [workflow_steps EXCEPT ![step_index + 1] = "FAILED"],
          called |-> <<step_index + 1>>,
          step_result |-> step_result]

\* execute_next_step that moves on whatever the step returned
ExecuteNextStepAlwaysAdvances(outcome) ==
    /\ bw_pc # "loop"
    /\ next_ret.n < MaxNextCalls
    /\ LET r == execute_step(current_step_index, outcome)
       IN /\ workflow_steps' = r.steps
          /\ step_result' = r.step_result
          /\ current_step_index' = current_step_index + 1
          /\ next_ret' = [n |-> next_ret.n + 1, status |-> r.status,
                          index |-> current_step_index]
    /\ UNCHANGED <<results, called, bw_pc>>

\* execute_next_step, called by the owner of the workflow
execute_next_step(outcome) ==
    /\ bw_pc # "loop"
    /\ next_ret.n < MaxNextCalls
    /\ LET r == execute_step(current_step_index, outcome)
       IN /\ workflow_steps' = r.steps
          /\ step_result' = r.step_result
          /\ current_step_index' = IF r.status = "success"
                                   THEN current_step_index + 1
                                   ELSE current_step_index
          /\ next_ret' = [n |-> next_ret.n + 1, status |-> r.status,
                          index |-> current_step_index]
    /\ UNCHANGED <<results, called, bw_pc>>

\* execute_all_steps up to the loop; with no step to run it returns at once
ExecuteAllStepsBegin ==
    /\ bw_pc \in {"new", "returned"}
    /\ results' = <<>>
    /\ called' = <<>>
    /\ current_step_index' = 0
    /\ bw_pc' = IF 0 < Len(workflow_steps) THEN "loop" ELSE "returned"
    /\ UNCHANGED <<workflow_steps, step_result, next_ret>>

\* one iteration of the loop: execute_next_step, the result appended, the
\* break on an error, and the test of the loop condition
ExecuteNextStep(outcome) ==
    /\ bw_pc = "loop"
    /\ LET r == execute_step(current_step_index, outcome)
           next == IF r.status = "success" THEN current_step_index + 1
                   ELSE current_step_index
       IN /\ workflow_steps' = r.steps
          /\ step_result' = r.step_result
          /\ called' = called \o r.called
          /\ current_step_index' = next
          /\ results' = Append(results, r.status)
          /\ bw_pc' = IF r.status = "error" \/ next >= Len(workflow_steps)
                      THEN "returned" ELSE "loop"
    /\ UNCHANGED next_ret

\* reset, called by the owner of the workflow
ResetWorkflow ==
    /\ bw_pc # "loop"
    /\ workflow_steps' = [k \in DOMAIN workflow_steps |-> "PENDING"]
    /\ step_result' = [k \in DOMAIN step_result |-> None]
    /\ current_step_index' = 0
    /\ bw_pc' = "new"
    /\ UNCHANGED <<results, called, next_ret>>

is_completed == \A k \in DOMAIN workflow_steps : workflow_steps[k] = "COMPLETED"

----------------------------------------------------------------------------
(* The A2A clients *)

\* the agents a client is pointed at and the capabilities (skills) a card
\* or a call names
ClientAgents == {"Market Analysis Agent", "Trade Execution Agent"}
ClientCapabilities == {"market_analysis", "execute_trade"}

\* the "capabilities" ("skills") a fetched card lists: none, or one of the
\* two a call may name
CardCapabilities == {{}, {"market_analysis"}}

\* what the GET of an agent card returns to the registry client: the card
\* may lack "endpoint"
FetchedCards == [endpoint : BOOLEAN, capabilities : CardCapabilities]

\* self.agent_card = None, and a card fetched from /.well-known/agent.json
NoAgentCard == [fetched |-> FALSE, skills |-> {}]
AgentCard(skills) == [fetched |-> TRUE, skills |-> skills]

\* what requests.get / requests.post with raise_for_status do
HttpOutcomes == {"ok", "HTTPError"}

\* the last call of create_task or execute_skill: whether the agent had been
\* discovered when it was made, whether the check found a card and found
\* the capability in it, what the call raised, and how many task-creation
\* requests it posted
ClientReturn(op, agent, capability, discovered, card, listed, raised, sent) ==
    [op |-> op, agent |-> agent, capability |-> capability,
     discovered |-> discovered, card |-> card, listed |-> listed,
     raised |-> raised, sent |-> sent]

NoCall == ClientReturn(None, None, None, FALSE, FALSE, FALSE, None, 0)

\* a task-creation request as the agent receives it
TaskRequest(op, agent, capability, declared) ==
    [op |-> op, agent |-> agent, capability |-> capability, declared |-> declared]

ClientInit ==
    /\ registry_cards = << >>
    /\ agent_card = NoAgentCard
    /\ posted = {}
    /\ client_ret = NoCall

\* src/a2a/client.py discover_agent: the card is stored under its name when
\* it has an endpoint
ClientDiscoverAgent(agent, card, http) ==
    /\ IF http = "ok" /\ card.endpoint
       THEN /\ registry_cards' =
                 [a \in DOMAIN registry_cards \cup {agent} |->
                     IF a = agent THEN card.capabilities ELSE registry_cards[a]]
            /\ agent_registry' = agent_registry \cup {agent}
       ELSE UNCHANGED <<registry_cards, agent_registry>>
    /\ UNCHANGED <<agent_card, posted, client_ret>>

\* src/a2a/client.py create_task, with no check of the capability
CreateTaskUnchecked(agent_name, capability, http) ==
    LET discovered == agent_name \in DOMAIN registry_cards
        capability_exists == discovered /\ capability \in registry_cards[agent_name]
    IN /\ IF ~discovered
          THEN /\ client_ret' = ClientReturn("create_task", agent_name, capability,
                                             FALSE, FALSE, FALSE, "ValueError", 0)
               /\ UNCHANGED posted
          ELSE /\ posted' = posted \cup
                      {TaskRequest("create_task", agent_name, capability,
                                   registry_cards[agent_name])}
               /\ client_ret' = ClientReturn("create_task", agent_name, capability,
                      TRUE, TRUE, capability_exists,
                      IF http = "ok" THEN None ELSE http, 1)
       /\ UNCHANGED <<registry_cards, agent_registry, agent_card>>

\* src/a2a/client.py create_task
create_task(agent_name, capability, http) ==
    LET discovered == agent_name \in DOMAIN registry_cards
        capability_exists == discovered /\ capability \in registry_cards[agent_name]
    IN /\ IF ~discovered
          THEN /\ client_ret' = ClientReturn("create_task", agent_name, capability,
                                             FALSE, FALSE, FALSE, "ValueError", 0)
               /\ UNCHANGED posted
          ELSE IF ~capability_exists
          THEN /\ client_ret' = ClientReturn("create_task", agent_name, capability,
                                             TRUE, TRUE, FALSE, "ValueError", 0)
               /\ UNCHANGED posted
          ELSE /\ posted' = posted \cup
                      {TaskRequest("create_task", agent_name, capability,
                                   registry_cards[agent_name])}
               /\ client_ret' = ClientReturn("create_task", agent_name, capability,
                      TRUE, TRUE, TRUE, IF http = "ok" THEN None ELSE http, 1)
       /\ UNCHANGED <<registry_cards, agent_registry, agent_card>>

\* src/src/a2a/client.py discover_agent
discover_agent(skills, http) ==
    /\ agent_card' = IF http = "ok" THEN AgentCard(skills) ELSE agent_card
    /\ UNCHANGED <<registry_cards, agent_registry, posted, client_ret>>

\* "not self.agent_card": None, or a card that is an empty dict
Falsy(card) == ~card.fetched

\* src/src/a2a/client.py execute_skill: the agent is discovered if there is
\* no card yet, the skill is looked up in the card, the task is posted
execute_skill(skill_name, skills, discovery, http) ==
    LET discovered == ~Falsy(agent_card)
        used == IF discovered THEN agent_card ELSE AgentCard(skills)
        server == "server_url"
    IN IF ~discovered /\ discovery # "ok"
       THEN /\ client_ret' = ClientReturn("execute_skill", server, skill_name,
                                          FALSE, FALSE, FALSE, discovery, 0)
            /\ UNCHANGED <<registry_cards, agent_registry, agent_card, posted>>
       ELSE /\ agent_card' = used
            /\ IF skill_name \notin used.skills
               THEN /\ client_ret' = ClientReturn("execute_skill", server, skill_name,
                                          discovered, TRUE, FALSE, "ValueError", 0)
                    /\ UNCHANGED posted
               ELSE /\ posted' = posted \cup
                           {TaskRequest("execute_skill", server, skill_name,
                                        used.skills)}
                    /\ client_ret' = ClientReturn("execute_skill", server, skill_name,
                           discovered, TRUE, TRUE, IF http = "ok" THEN None ELSE http, 1)
            /\ UNCHANGED <<registry_cards, agent_registry>>

----------------------------------------------------------------------------
(* The orchestration agent's workflow engine *)

\* default_config["workflows"]: the steps of each predefined workflow
DefaultWorkflows ==
    [market_analysis_to_trade |->
        <<[agent |-> "Market Analysis Agent", capability |-> "market_analysis"],
          [agent |-> "Risk Management Agent", capability |-> "assess_trade_risk"],
          [agent |-> "Trade Execution Agent", capability |-> "execute_trade"]>>,
     risk_assessment |->
        <<[agent |-> "Risk Management Agent", capability |-> "monitor_portfolio_risk"]>>,
     performance_report |->
        <<[agent |-> "Reporting and Analytics Agent",
           capability |-> "generate_performance_report"]>>,
     portfolio_rebalance |->
        <<[agent |-> "Risk Management Agent", capability |-> "monitor_portfolio_risk"],
          [agent |-> "Market Analysis Agent", capability |-> "market_analysis"],
          [agent |-> "Trade Execution Agent", capability |-> "execute_trade"]>>]

\* a workflow a configuration file adds: two steps of one capability
ConfigFileWorkflows ==
    [double_analysis |->
        <<[agent |-> "Market Analysis Agent", capability |-> "market_analysis"],
          [agent |-> "Market Analysis Agent", capability |-> "market_analysis"]>>]

\* config["workflows"] as _load_config returns it
Workflows ==
    [n \in DOMAIN DefaultWorkflows \cup DOMAIN ConfigFileWorkflows |->
        IF n \in DOMAIN ConfigFileWorkflows
        THEN ConfigFileWorkflows[n] ELSE DefaultWorkflows[n]]

WorkflowNames == DOMAIN Workflows

\* the workflow_name of a request: a configured name, or another one
RequestedNames == WorkflowNames \cup {"no_such_workflow"}

Agents == {"Market Analysis Agent", "Trade Execution Agent",
           "Risk Management Agent", "Reporting and Analytics Agent"}

\* the uuid4 A2AClient.create_task draws for the task of step i
StepTaskIds == <<"w1", "w2", "w3">>

NoWorkflow ==
    [name |-> None, status |-> None, steps |-> <<>>, parameters |-> None,
     result |-> <<>>, error |-> NoError]

\* the "parameters" of an execute_workflow request: a dict, or a value
\* without a copy() method
WorkflowParams == {"dict", "not_a_dict"}
NoSnapshot == [status |-> None, result |-> None, error |-> NoError]
NoLocals ==
    [i |-> 0, step_results |-> <<>>, task_id |-> None, task_status |-> NoSnapshot]

WorkflowIdle ==
    /\ workflow = NoWorkflow
    /\ wf_pc = "idle"
    /\ wf_local = NoLocals
    /\ submitted = <<>>
    /\ wf_resp = NoEnvelope

WorkflowSteps == Workflows[workflow.name]
CurrentStep == WorkflowSteps[wf_local.i]
LastStep == Len(workflow.steps)

\* the uuid4 execute_workflow draws for the workflow
WorkflowId == "wf1"

\* execute_workflow, called as the capability handler or through
\* execute_llm_function (op): an unknown workflow_name is answered with an
\* error; for a known one the workflow is stored, _execute_workflow_steps
\* is scheduled and the id and the status are returned
ExecuteWorkflowAs(op, name, params) ==
    /\ wf_pc = "idle"
    /\ IF name \notin WorkflowNames
       THEN /\ wf_resp' = Envelope(op, "returned", "error", "string", None, {},
                                   None, None)
            /\ UNCHANGED <<workflow, wf_local, wf_pc>>
       ELSE /\ workflow' = [name |-> name, status |-> "in_progress",
                            steps |-> <<>>, parameters |-> params,
                            result |-> <<>>, error |-> NoError]
            /\ wf_local' = [NoLocals EXCEPT !.i = 1]
            /\ wf_pc' = "loop"
            /\ wf_resp' = Envelope(op, "returned", "in_progress", "absent", None,
                                   {}, WorkflowId, "in_progress")
    /\ UNCHANGED <<agent_registry, submitted>>

ExecuteWorkflow(name, params) == ExecuteWorkflowAs("execute_workflow", name, params)

\* self.mcp_functions
mcp_functions ==
    {"get_agent_status", "execute_market_analysis", "execute_trade",
     "assess_risk", "generate_report", "execute_workflow"}

\* the function_name of an execute_llm_function request (None: absent), and
\* its arguments: a dict for execute_workflow, or a value that is no dict
LlmFunctionNames == {"execute_workflow", "no_such_function", None}
LlmArguments ==
    {[is_dict |-> FALSE, workflow_name |-> None, parameters |-> None]} \cup
    [is_dict : {TRUE}, workflow_name : RequestedNames, parameters : {"dict"}]

\* execute_llm_function: a missing or unknown function_name is answered
\* with an error, the second listing the known names; otherwise the
\* function is called and its result returned, or, when it raises (here:
\* execute_workflow reading arguments that are no dict), an error dict
ExecuteLlmFunction(function_name, arguments) ==
    IF function_name = None
    THEN /\ wf_resp' = Envelope("execute_llm_function", "name_required", "error",
                                "string", None, {}, None, None)
         /\ UNCHANGED <<workflow, wf_pc, wf_local, agent_registry, submitted>>
    ELSE IF function_name \notin mcp_functions
    THEN /\ wf_resp' = Envelope("execute_llm_function", "not_found", "error",
                                "string", None, mcp_functions, None, None)
         /\ UNCHANGED <<workflow, wf_pc, wf_local, agent_registry, submitted>>
    ELSE IF ~arguments.is_dict
    THEN /\ wf_resp' = Envelope("execute_llm_function", "raised", "error",
                                "string", None, {}, None, None)
         /\ UNCHANGED <<workflow, wf_pc, wf_local, agent_registry, submitted>>
    ELSE /\ function_name = "execute_workflow"
         /\ ExecuteWorkflowAs("execute_llm_function", arguments.workflow_name,
                              arguments.parameters)

\* the head of an iteration that numbers the steps as enumerate does, from 0
StepBeginZeroBased ==
    /\ wf_pc = "loop"
    /\ wf_local.i <= Len(WorkflowSteps)
    /\ IF workflow.parameters = "dict"
       THEN /\ workflow' = [workflow EXCEPT !.steps = Append(@,
                  [step_id |-> wf_local.i - 1,
                   agent |-> CurrentStep.agent,
                   capability |-> CurrentStep.capability,
                   status |-> "in_progress",
                   parameters |-> wf_local.step_results,
                   result |-> None,
                   error |-> NoError])]
            /\ submitted' = Append(submitted, {})
            /\ wf_pc' = "discover"
       ELSE \* workflow_params.copy() raises: the outer except clause
            /\ workflow' = [workflow EXCEPT
                  !.status = "failed",
                  !.error = [message |-> "no attribute copy"]]
            /\ wf_pc' = "done"
            /\ UNCHANGED submitted
    /\ UNCHANGED <<wf_local, agent_registry, wf_resp>>

\* the head of an iteration of the for loop: the step is recorded as
\* in_progress, with the results of the previous steps among its parameters
StepBegin ==
    /\ wf_pc = "loop"
    /\ wf_local.i <= Len(WorkflowSteps)
    /\ IF workflow.parameters = "dict"
       THEN /\ workflow' = [workflow EXCEPT !.steps = Append(@,
                  [step_id |-> wf_local.i,
                   agent |-> CurrentStep.agent,
                   capability |-> CurrentStep.capability,
                   status |-> "in_progress",
                   parameters |-> wf_local.step_results,
                   result |-> None,
                   error |-> NoError])]
            /\ submitted' = Append(submitted, {})
            /\ wf_pc' = "discover"
       ELSE \* workflow_params.copy() raises: the outer except clause
            /\ workflow' = [workflow EXCEPT
                  !.status = "failed",
                  !.error = [message |-> "no attribute copy"]]
            /\ wf_pc' = "done"
            /\ UNCHANGED submitted
    /\ UNCHANGED <<wf_local, agent_registry, wf_resp>>

\* the for loop going on after a failed step
AfterStepFailedContinue == "loop"

\* where _execute_workflow_steps goes once a step has failed: it returns
AfterStepFailed == "done"

\* FailStep without the workflow being marked failed
FailStepOnly(err) ==
    /\ workflow' = [workflow EXCEPT
           !.steps[LastStep].status = "failed",
           !.steps[LastStep].error = err]
    /\ wf_pc' = AfterStepFailed

\* a step fails (its task failed, or a call raised): the step and the
\* workflow are marked failed
FailStep(err) ==
    /\ workflow' = [workflow EXCEPT
           !.steps[LastStep].status = "failed",
           !.steps[LastStep].error = err,
           !.status = "failed",
           !.error = err]
    /\ wf_pc' = AfterStepFailed

RaisedError(msg) == [message |-> msg]

\* discover_agent, when the agent is not in the registry: the card is
\* fetched and registered under its name if it has an endpoint
DiscoverOutcomes == {"registered", "not_registered", "raised"}

Discover(outcome) ==
    /\ wf_pc = "discover"
    /\ IF CurrentStep.agent \in agent_registry
       THEN /\ outcome = "registered"
            /\ wf_pc' = "create"
            /\ UNCHANGED <<workflow, agent_registry>>
       ELSE CASE outcome = "registered" ->
                   /\ agent_registry' = agent_registry \cup {CurrentStep.agent}
                   /\ wf_pc' = "create"
                   /\ UNCHANGED workflow
              [] outcome = "not_registered" ->
                   /\ wf_pc' = "create"
                   /\ UNCHANGED <<workflow, agent_registry>>
              [] outcome = "raised" ->
                   /\ FailStep(RaisedError("discovery failed"))
                   /\ UNCHANGED agent_registry
    /\ UNCHANGED <<wf_local, submitted, wf_resp>>
    /\ UNCHANGED not_engine

\* A2AClient.create_task for the step: it raises for an agent that is not
\* registered, a capability the card does not list or an HTTP error;
\* otherwise the agent's server has created the task
CreateOutcomes == {"created", "raised"}

CreateStepTask(outcome) ==
    /\ wf_pc = "create"
    /\ IF CurrentStep.agent \notin agent_registry \/ outcome = "raised"
       THEN /\ outcome = "raised"
            /\ FailStep(RaisedError("create_task failed"))
            /\ UNCHANGED <<wf_local, submitted>>
            /\ UNCHANGED not_engine
       ELSE LET id == StepTaskIds[wf_local.i]
            IN /\ ClientCreateTask(id, CurrentStep.capability)
               /\ wf_local' = [wf_local EXCEPT !.task_id = id]
               /\ submitted' = [submitted EXCEPT ![LastStep] = @ \cup {id}]
               /\ wf_pc' = "poll"
               /\ UNCHANGED workflow
               /\ UNCHANGED <<ovars, mvars, xvars>>
    /\ UNCHANGED <<agent_registry, wf_resp>>

\* the statuses on which the polling loop of a step breaks
PollTerminal == {"completed", "failed"}

Snapshot(t) == [status |-> t.status, result |-> t.result, error |-> t.error]

\* one iteration of the polling loop: get_task, then the break and what
\* follows it, or the sleep
PollTask(outcome) ==
    /\ wf_pc = "poll"
    /\ IF outcome = "raised"
       THEN /\ FailStep(RaisedError("get_task failed"))
            /\ UNCHANGED wf_local
       ELSE LET task_status == Snapshot(Stored(wf_local.task_id))
            IN IF task_status.status \notin PollTerminal
               THEN /\ wf_local' = [wf_local EXCEPT !.task_status = task_status]
                    /\ wf_pc' = "sleep"
                    /\ UNCHANGED workflow
               ELSE IF task_status.status = "completed"
               THEN /\ wf_local' = [wf_local EXCEPT
                          !.task_status = task_status,
                          !.step_results =
                             [c \in DOMAIN @ \cup {CurrentStep.capability} |->
                                 IF c = CurrentStep.capability
                                 THEN task_status.result ELSE @[c]],
                          !.i = @ + 1]
                    /\ workflow' = [workflow EXCEPT
                          !.steps[LastStep].status = "completed",
                          !.steps[LastStep].result = task_status.result]
                    /\ wf_pc' = "loop"
               ELSE /\ wf_local' = [wf_local EXCEPT !.task_status = task_status]
                    /\ FailStep(task_status.error)
    /\ UNCHANGED <<agent_registry, submitted, wf_resp>>
    /\ UNCHANGED not_engine

PollOutcomes == {"answered", "raised"}

\* await asyncio.sleep(1) returns
Sleep ==
    /\ wf_pc = "sleep"
    /\ wf_pc' = "poll"
    /\ UNCHANGED <<workflow, wf_local, agent_registry, submitted, wf_resp>>
    /\ UNCHANGED not_engine

\* the for loop left after its first iteration
WorkflowCompletesEarly ==
    /\ wf_pc = "loop"
    /\ wf_local.i > 1
    /\ workflow' = [workflow EXCEPT !.status = "completed",
                                    !.result = wf_local.step_results]
    /\ wf_pc' = "done"
    /\ UNCHANGED <<wf_local, agent_registry, submitted, wf_resp>>
    /\ UNCHANGED not_engine

\* the for loop is exhausted: all steps completed successfully
WorkflowCompletes ==
    /\ wf_pc = "loop"
    /\ wf_local.i > Len(WorkflowSteps)
    /\ workflow' = [workflow EXCEPT !.status = "completed",
                                    !.result = wf_local.step_results]
    /\ wf_pc' = "done"
    /\ UNCHANGED <<wf_local, agent_registry, submitted, wf_resp>>
    /\ UNCHANGED not_engine

\* at start the client's registry is empty, or start-up discovery has
\* registered the agents
WfInit ==
    /\ ServerInit
    /\ WorkflowIdle
    /\ agent_registry \in {{}, Agents}
    /\ OrchInit
    /\ McpInit
    /\ ProtocolInit
    /\ OrderInit
    /\ BaseWorkflowInit
    /\ ClientInit
    /\ DispatchInit
    /\ AdvanceInit
    /\ ValidatorsInit

EngineNext ==
    \/ \E name \in RequestedNames, params \in WorkflowParams :
          ExecuteWorkflow(name, params) /\ UNCHANGED not_engine
    \/ StepBegin /\ UNCHANGED not_engine
    \/ \E outcome \in DiscoverOutcomes : Discover(outcome)
    \/ \E outcome \in CreateOutcomes : CreateStepTask(outcome)
    \/ \E outcome \in PollOutcomes : PollTask(outcome)
    \/ Sleep
    \/ WorkflowCompletes

\* what the handlers of the agents return for the tasks of the steps
StepResults == {"r1", "r2"}

\* the agents' side of the tasks the engine submitted
RemoteNext ==
    \/ \E o \in DOMAIN objs : ProcessTaskStart(o) /\ UNCHANGED not_server
    \/ \E o \in DOMAIN objs, r \in StepResults : HandlerReturns(o, r) /\ UNCHANGED not_server
    \/ \E o \in DOMAIN objs, e \in Exceptions : HandlerRaises(o, e) /\ UNCHANGED not_server
    \/ \E id \in DOMAIN tasks : DeleteTask(id) /\ UNCHANGED not_server

\* requests to the orchestration agent's function dispatcher
DispatchNext ==
    \E f \in LlmFunctionNames, a \in LlmArguments :
       ExecuteLlmFunction(f, a) /\ UNCHANGED not_engine

WfNext == EngineNext \/ RemoteNext \/ DispatchNext

WfSpec == WfInit /\ [][WfNext]_vars

\* the agents' side when DELETE requests are sent only for tasks that are
\* pending or in progress
RemoteNextCancelLive ==
    \/ \E o \in DOMAIN objs : ProcessTaskStart(o) /\ UNCHANGED not_server
    \/ \E o \in DOMAIN objs, r \in StepResults : HandlerReturns(o, r) /\ UNCHANGED not_server
    \/ \E o \in DOMAIN objs, e \in Exceptions : HandlerRaises(o, e) /\ UNCHANGED not_server
    \/ \E id \in DOMAIN tasks :
          /\ Stored(id).status \in {"pending", "in_progress"}
          /\ DeleteTask(id)
          /\ UNCHANGED not_server

WfFairNext == EngineNext \/ RemoteNextCancelLive \/ DispatchNext

\* the engine's coroutine and the servers' background tasks are run by their
\* event loops; a handler may never return
WfFairSpec ==
    /\ WfInit
    /\ [][WfFairNext]_vars
    /\ WF_vars(EngineNext)
    /\ WF_vars(\E o \in DOMAIN objs : ProcessTaskStart(o) /\ UNCHANGED not_server)

Init ==
    /\ ServerInit
    /\ WorkflowIdle
    /\ agent_registry = {}
    /\ OrchInit
    /\ McpInit
    /\ ProtocolInit
    /\ OrderInit
    /\ BaseWorkflowInit
    /\ ClientInit
    /\ DispatchInit
    /\ AdvanceInit
    /\ ValidatorsInit

\* the MCP orchestration agent with the calls on its agent registry
RegistryNext ==
    \/ \E id \in AgentIds, fs \in SUBSET Functions, ep \in Endpoints :
          RegisterAgent(id, fs, ep) /\ UNCHANGED <<svars, wvars, mvars, xvars>>
    \/ \E f \in Functions, p \in FunctionParams :
          ExecuteFunction(f, p) /\ UNCHANGED <<svars, wvars, mvars, xvars>>

RegistrySpec == Init /\ [][RegistryNext]_vars

\* the MCP orchestration agent with execute_function called from several
\* threads
ConcurrentNext ==
    \/ \E id \in AgentIds, fs \in SUBSET Functions :
          DispatchRegisterAgent(id, fs, None) /\ UNCHANGED not_dispatch
    \/ \E t \in DispatchThreads, f \in Functions, p \in FunctionParams :
          DispatchBegin(t, f, p) /\ UNCHANGED not_dispatch
    \/ \E t \in DispatchThreads : DispatchEnd(t) /\ UNCHANGED not_dispatch

ConcurrentSpec == Init /\ [][ConcurrentNext]_vars

\* the MCP orchestration agent with the calls that create workflows
CreateNext ==
    \E t \in WorkflowTypes, p \in CreateParams :
       /\ WorkflowStoreHasRoom
       /\ CreateWorkflow(t, p)
       /\ UNCHANGED <<svars, wvars, mvars, xvars>>

CreateSpec == Init /\ [][CreateNext]_vars

\* the function-protocol orchestration agent with the requests of the MCP
\* server
McpNext ==
    \/ \E f \in McpFunctionNames, a \in McpArguments :
          CallFunction(f, a) /\ UNCHANGED <<svars, wvars, ovars, xvars>>
    \/ \E w \in McpWorkflowIds, given \in BOOLEAN, i \in StepIndexes :
          SimulateWorkflowProgress(w, given, i) /\ UNCHANGED <<svars, wvars, ovars, xvars>>

McpSpec == Init /\ [][McpNext]_vars

\* the protocol server with the requests on tasks and the background runs
ProtocolNext ==
    \/ \E id \in ProtocolTaskIds, cap \in Capabilities :
          ProtocolCreateTask(id, cap) /\ UNCHANGED not_protocol
    \/ \E id \in ProtocolTaskIds : ProtocolProcessStart(id) /\ UNCHANGED not_protocol
    \/ \E id \in ProtocolTaskIds, ok \in BOOLEAN :
          ProtocolProcessEnd(id, ok) /\ UNCHANGED not_protocol
    \/ \E id \in ProtocolTaskIds, m \in SentMessages :
          /\ SendsAccepted < MaxSends
          /\ tasks_send(id, m)
          /\ UNCHANGED not_protocol
    \/ \E k \in DOMAIN send_bg : process_task_start(k) /\ UNCHANGED not_protocol
    \/ \E k \in DOMAIN send_bg : process_task_end(k) /\ UNCHANGED not_protocol
    \/ \E id \in ProtocolTaskIds : GetRequest(id) /\ UNCHANGED not_protocol
    \/ \E id \in ProtocolTaskIds : DeleteRequest(id) /\ UNCHANGED not_protocol

ProtocolSpec == Init /\ [][ProtocolNext]_vars

\* get_workflow called with every parameter bag
OrderNext ==
    \E p \in OrderParameters : GetWorkflow(p) /\ UNCHANGED not_order

OrderSpec == Init /\ [][OrderNext]_vars

\* the two validators of a crypto order, called on the same parameter bags
ValidatorsNext ==
    \E p \in OrderParameters : ValidateBoth(p) /\ UNCHANGED not_validators

ValidatorsSpec == Init /\ [][ValidatorsNext]_vars

\* a workflow run with execute_all_steps, again and again, and reset
BaseWorkflowNext ==
    \/ add_step /\ UNCHANGED not_base_workflow
    \/ ExecuteAllStepsBegin /\ UNCHANGED not_base_workflow
    \/ \E outcome \in StepOutcomes : ExecuteNextStep(outcome) /\ UNCHANGED not_base_workflow
    \/ ResetWorkflow /\ UNCHANGED not_base_workflow

BaseWorkflowSpec == Init /\ [][BaseWorkflowNext]_vars

\* the two clients, discovering agents and asking for tasks
ClientNext ==
    \/ \E agent \in ClientAgents, card \in FetchedCards, http \in HttpOutcomes :
          ClientDiscoverAgent(agent, card, http) /\ UNCHANGED not_client
    \/ \E agent_name \in ClientAgents, capability \in ClientCapabilities,
          http \in HttpOutcomes :
          create_task(agent_name, capability, http) /\ UNCHANGED not_client
    \/ \E skills \in CardCapabilities, http \in HttpOutcomes :
          discover_agent(skills, http) /\ UNCHANGED not_client
    \/ \E skill_name \in ClientCapabilities, skills \in CardCapabilities,
          discovery \in HttpOutcomes, http \in HttpOutcomes :
          execute_skill(skill_name, skills, discovery, http) /\ UNCHANGED not_client

ClientSpec == Init /\ [][ClientNext]_vars

\* the function-protocol orchestration agent with workflows advanced only
\* by simulate_workflow_progress without a step index
ProgressNext ==
    \/ \E f \in McpFunctionNames, a \in McpArguments :
          CallFunction(f, a) /\ UNCHANGED <<svars, wvars, ovars, xvars>>
    \/ \E w \in McpWorkflowIds :
          AdvanceNextStep(w) /\ UNCHANGED not_advance

ProgressSpec == Init /\ [][ProgressNext]_vars

\* a workflow stepped by its owner with execute_next_step
NextStepNext ==
    \/ add_step /\ UNCHANGED not_base_workflow
    \/ \E outcome \in StepOutcomes : execute_next_step(outcome) /\ UNCHANGED not_base_workflow
    \/ ResetWorkflow /\ UNCHANGED not_base_workflow

NextStepSpec == Init /\ [][NextStepNext]_vars

\* the server with the requests and background steps of the task lifecycle
Next ==
    \/ \E id \in TaskIds, cap \in Capabilities, b \in Bodies, cb \in CallbackUrls :
          /\ StoreHasRoom(cap)
          /\ CreateTask(id, cap, b.status, b.result, NoError, cb)
          /\ UNCHANGED not_server
    \/ \E id \in TaskIds : GetTask(id) /\ UNCHANGED not_server
    \/ \E id \in TaskIds : DeleteTask(id) /\ UNCHANGED not_server
    \/ \E o \in DOMAIN objs : ProcessTaskStart(o) /\ UNCHANGED not_server
    \/ \E o \in DOMAIN objs, r \in Results : HandlerReturns(o, r) /\ UNCHANGED not_server
    \/ \E o \in DOMAIN objs, e \in Exceptions : HandlerRaises(o, e) /\ UNCHANGED not_server
    \/ Tick /\ UNCHANGED not_server

Spec == Init /\ [][Next]_vars

\* the server with every request of its HTTP surface
FullNext ==
    \/ \E id \in TaskIds, cap \in Capabilities, b \in Bodies, cb \in CallbackUrls :
          /\ StoreHasRoom(cap)
          /\ CreateTask(id, cap, b.status, b.result, NoError, cb)
          /\ UNCHANGED not_server
    \/ \E id \in TaskIds : DeleteTask(id) /\ UNCHANGED not_server
    \/ \E id \in TaskIds, upd \in Updates : UpdateTask(id, upd) /\ UNCHANGED not_server
    \/ \E id \in TaskIds, mid \in TaskIds, c \in Contents :
          SendMessage(id, mid, c) /\ UNCHANGED not_server
    \/ \E o \in DOMAIN objs : ProcessTaskStart(o) /\ UNCHANGED not_server
    \/ \E o \in DOMAIN objs, r \in Results : HandlerReturns(o, r) /\ UNCHANGED not_server
    \/ \E o \in DOMAIN objs, e \in Exceptions : HandlerRaises(o, e) /\ UNCHANGED not_server

FullSpec == Init /\ [][FullNext]_vars

\* tasks created by the A2A client, dispatched in the background, canceled by
\* DELETE requests
LifecycleNext ==
    \/ \E id \in TaskIds, cap \in Capabilities :
          /\ StoreHasRoom(cap)
          /\ ClientCreateTask(id, cap)
          /\ UNCHANGED not_server
    \/ \E id \in TaskIds : DeleteTask(id) /\ UNCHANGED not_server
    \/ \E o \in DOMAIN objs : ProcessTaskStart(o) /\ UNCHANGED not_server
    \/ \E o \in DOMAIN objs, r \in Results : HandlerReturns(o, r) /\ UNCHANGED not_server
    \/ \E o \in DOMAIN objs, e \in Exceptions : HandlerRaises(o, e) /\ UNCHANGED not_server
    \/ Tick /\ UNCHANGED not_server

LifecycleSpec == Init /\ [][LifecycleNext]_vars

\* the task lifecycle with messages posted to the tasks
MessageNext ==
    \/ \E id \in TaskIds, cap \in Capabilities :
          /\ StoreHasRoom(cap)
          /\ ClientCreateTask(id, cap)
          /\ UNCHANGED not_server
    \/ \E id \in TaskIds : DeleteTask(id) /\ UNCHANGED not_server
    \/ \E id \in TaskIds, mid \in TaskIds, c \in Contents :
          SendMessage(id, mid, c) /\ UNCHANGED not_server
    \/ \E o \in DOMAIN objs : ProcessTaskStart(o) /\ UNCHANGED not_server
    \/ \E o \in DOMAIN objs, r \in Results : HandlerReturns(o, r) /\ UNCHANGED not_server
    \/ \E o \in DOMAIN objs, e \in Exceptions : HandlerRaises(o, e) /\ UNCHANGED not_server
    \/ Tick /\ UNCHANGED not_server

MessageSpec == Init /\ [][MessageNext]_vars

\* the task lifecycle of tasks created with and without a callback_url
CallbackNext ==
    \/ \E id \in TaskIds, cap \in Capabilities, cb \in CallbackTargets :
          /\ StoreHasRoom(cap)
          /\ id \notin DOMAIN tasks
          /\ CreateTask(id, cap, "pending", None, NoError, cb)
          /\ UNCHANGED not_server
    \/ \E id \in TaskIds : DeleteTask(id) /\ UNCHANGED not_server
    \/ \E o \in DOMAIN objs : ProcessTaskStart(o) /\ UNCHANGED not_server
    \/ \E o \in DOMAIN objs, r \in Results : HandlerReturns(o, r) /\ UNCHANGED not_server
    \/ \E o \in DOMAIN objs, e \in Exceptions : HandlerRaises(o, e) /\ UNCHANGED not_server

CallbackSpec == Init /\ [][CallbackNext]_vars

\* tasks created by the A2A client, overridden by PUT requests and sent
\* messages while the clock advances
OverrideNext ==
    \/ \E id \in TaskIds, cap \in Capabilities :
          /\ StoreHasRoom(cap)
          /\ ClientCreateTask(id, cap)
          /\ UNCHANGED not_server
    \/ \E id \in TaskIds, upd \in Updates : UpdateTask(id, upd) /\ UNCHANGED not_server
    \/ \E id \in TaskIds, mid \in TaskIds, c \in Contents :
          SendMessage(id, mid, c) /\ UNCHANGED not_server
    \/ Tick /\ UNCHANGED not_server

OverrideSpec == Init /\ [][OverrideNext]_vars

----------------------------------------------------------------------------
(* Claims about the task state machine *)

AllowedTransitions ==
    {<<"pending", "in_progress">>, <<"in_progress", "completed">>,
     <<"in_progress", "failed">>, <<"pending", "canceled">>,
     <<"in_progress", "canceled">>}

\* C1: every change of a task's status is pending->in_progress,
\* in_progress->completed, in_progress->failed, pending->canceled or
\* in_progress->canceled; completed, failed and canceled are never left.
C1_OnlyLifecycleTransitions ==
    [][\A o \in DOMAIN objs :
          \/ objs'[o].status = objs[o].status
          \/ <<objs[o].status, objs'[o].status>> \in AllowedTransitions]_vars

\* C2: a POST /tasks for a capability without a handler answers 400 and
\* leaves the task store, the message store and the background queue as
\* they were.
C2_RejectedCreateChangesNothing ==
    [][(resp' # resp /\ resp' = Response("create", 400))
          => UNCHANGED <<objs, tasks, messages, bg_pc>>]_vars

C2_Witness ==
    /\ resp = Response("create", 400)
    /\ Len(objs) >= 1
    /\ DOMAIN tasks # {}

\* C3: the task an accepted POST /tasks stores and returns is pending, with
\* no result and no error, whatever the body carried, and its handler has
\* not been invoked yet.
C3_CreatedTaskIsPending ==
    [][(resp' = Response("create", 201) /\ Len(objs') = Len(objs) + 1)
          => LET t == objs'[Len(objs')]
             IN /\ t.status = "pending"
                /\ t.result = None
                /\ t.error = NoError
                /\ bg_pc'[Len(objs')] = "queued"]_vars

\* C4: when _process_task leaves the handler, it has finished: the task is
\* completed, or (the handler raised) failed with an error record holding
\* the type and the message of the exception; no exception escapes it.
C4_HandlerExceptionMapsToFailed ==
    [][\A o \in DOMAIN objs :
          (bg_pc[o] = "running" /\ bg_pc'[o] # "running")
             => /\ bg_pc'[o] = "done"
                /\ \/ objs'[o].status = "completed"
                   \/ /\ objs'[o].status = "failed"
                      /\ \E e \in Exceptions :
                            objs'[o].error = [message |-> e.message, type |-> e.type]]_vars

C4_Witness ==
    /\ \E o \in DOMAIN objs :
          /\ bg_pc[o] = "done"
          /\ objs[o].status = "failed"
          /\ objs[o].error.type = "RuntimeError"
    /\ resp = Response("get", 200)
    /\ Len(objs) = 2

\* C5: when the handler of one task raises, that task's status, error and
\* updated_at are all that changes: every other task, the store, the
\* messages and the other background runs are as before.
C5_HandlerFailureIsolated ==
    [][\A o \in DOMAIN objs :
          (bg_pc[o] = "running" /\ bg_pc'[o] = "done" /\ objs'[o].status = "failed")
             => /\ \A p \in DOMAIN objs \ {o} :
                      objs'[p] = objs[p] /\ bg_pc'[p] = bg_pc[p]
                /\ tasks' = tasks
                /\ messages' = messages
                /\ objs'[o] = [objs[o] EXCEPT !.status = objs'[o].status,
                                              !.error = objs'[o].error,
                                              !.updated_at = objs'[o].updated_at]]_vars

C5_Witness ==
    \E o, p \in DOMAIN objs :
       /\ o # p
       /\ bg_pc[o] = "done" /\ objs[o].status = "failed"
       /\ bg_pc[p] = "running" /\ objs[p].status = "in_progress"

\* C6: a stored task has a result iff it is completed and an error record
\* iff it is failed.
C6_ResultIffCompletedErrorIffFailed ==
    \A id \in DOMAIN tasks :
       /\ (Stored(id).result # None) <=> (Stored(id).status = "completed")
       /\ (Stored(id).error # NoError) <=> (Stored(id).status = "failed")

----------------------------------------------------------------------------
(* Claims about the workflow engine *)

StepStatus(k) == workflow.steps[k].status
AnyStepFailed == \E k \in DOMAIN workflow.steps : StepStatus(k) = "failed"

\* C7: a step is in progress, or has had its task submitted, only when every
\* step defined before it is completed.
C7_StepStartsAfterItsPredecessorsComplete ==
    \A k \in DOMAIN workflow.steps :
       (StepStatus(k) = "in_progress" \/ submitted[k] # {})
          => \A j \in 1..(k - 1) : StepStatus(j) = "completed"

C7_Witness ==
    /\ Len(workflow.steps) = 3
    /\ StepStatus(3) = "in_progress"
    /\ submitted[3] # {}
    /\ StepStatus(1) = "completed" /\ StepStatus(2) = "completed"

C33_RecordedStepsArePrefixOfDefinition ==
    /\ workflow.name # None => Len(workflow.steps) <= Len(WorkflowSteps)
    /\ \A k \in DOMAIN workflow.steps :
          /\ workflow.steps[k].step_id = k
          /\ workflow.steps[k].agent = WorkflowSteps[k].agent
          /\ workflow.steps[k].capability = WorkflowSteps[k].capability
          /\ k < Len(workflow.steps) => StepStatus(k) = "completed"
    /\ DOMAIN submitted = DOMAIN workflow.steps
    /\ \A k \in DOMAIN submitted : Cardinality(submitted[k]) <= 1

\* the third step of a workflow has submitted its task after the first two
\* completed
C33_Witness ==
    /\ Len(workflow.steps) = 3
    /\ Cardinality(submitted[3]) = 1
    /\ Cardinality(submitted[1]) = 1 /\ Cardinality(submitted[2]) = 1
    /\ StepStatus(3) = "failed"

\* the task behind the step being waited for has status st
StepTaskHas(st) ==
    /\ wf_pc \in {"poll", "sleep"}
    /\ wf_local.task_id \in DOMAIN tasks
    /\ Stored(wf_local.task_id).status = st

\* C9: a step whose task is canceled for good does not leave the workflow in
\* progress forever: the step and the workflow are eventually marked failed.
C9_CanceledTaskFailsWorkflow ==
    (<>[]StepTaskHas("canceled")) => <>(workflow.status = "failed" /\ AnyStepFailed)

\* C10: waiting for a submitted task always ends.
C10_PollingTerminates ==
    (wf_pc = "poll") ~> (wf_pc \notin {"poll", "sleep"})

\* every step of the workflow's definition is recorded as completed
AllDefinedStepsCompleted ==
    /\ workflow.name \in WorkflowNames
    /\ Len(workflow.steps) = Len(WorkflowSteps)
    /\ \A k \in DOMAIN workflow.steps : StepStatus(k) = "completed"

\* _execute_workflow_steps is suspended (not yet started, or in its sleep) or
\* has returned: the states in which a status request can read the workflow
Suspended ==
    \/ wf_pc \in {"idle", "sleep", "done"}
    \/ wf_pc = "loop" /\ workflow.steps = <<>>

\* C11: a workflow whose status is completed has every step of its
\* definition completed, and a workflow read while all its defined steps
\* are completed has status completed.
C11_CompletedIffAllStepsCompleted ==
    /\ workflow.status = "completed" => AllDefinedStepsCompleted
    /\ (Suspended /\ AllDefinedStepsCompleted) => workflow.status = "completed"

C11_Witness ==
    /\ workflow.status = "completed"
    /\ Len(workflow.steps) = 3
    /\ wf_pc = "done"

\* C12: a workflow has status failed exactly when one of its steps is
\* recorded as failed.
C12_FailedIffAStepFailed ==
    (workflow.status = "failed") <=> AnyStepFailed

\* the steps a step of a configured workflow declares to depend on: a step
\* is a dict of "agent" and "capability", no dependency is declared
StepDependsOn(k) == {}

\* step k of the definition is ready: the steps it depends on are completed
StepReady(k) ==
    \A j \in StepDependsOn(k) :
       j \in DOMAIN workflow.steps /\ StepStatus(j) = "completed"

\* C14: steps with no dependency between them are in flight together: while
\* the task of one step is awaited, every ready step of the definition has
\* been started as well; and the workflow is completed only when all of
\* them are.
C14_IndependentStepsRunConcurrently ==
    /\ wf_pc \in {"poll", "sleep"} =>
          \A k \in 1..Len(WorkflowSteps) :
             StepReady(k) => k \in DOMAIN workflow.steps
    /\ workflow.status = "completed" => AllDefinedStepsCompleted

\* the key under which the result of step k is kept in step_results
StepKey(k) == WorkflowSteps[k].capability

CompletedSteps == {k \in DOMAIN workflow.steps : StepStatus(k) = "completed"}

\* C15: the result of every completed step is kept under the key of that
\* step, and the parameters of every later step hold it: no result is lost
\* or overwritten by the result of another step.
C15_StepResultsAreKept ==
    \A j \in CompletedSteps :
       /\ StepKey(j) \in DOMAIN wf_local.step_results
       /\ wf_local.step_results[StepKey(j)] = workflow.steps[j].result
       /\ \A k \in DOMAIN workflow.steps :
             k > j => /\ StepKey(j) \in DOMAIN workflow.steps[k].parameters
                      /\ workflow.steps[k].parameters[StepKey(j)] = workflow.steps[j].result

----------------------------------------------------------------------------
(* Claims about the MCP orchestration agent *)

StepIds(wf) == {wf.steps[k].id : k \in DOMAIN wf.steps}
DependsOn(wf, id) ==
    UNION {wf.steps[k].depends_on : k \in {j \in DOMAIN wf.steps : wf.steps[j].id = id}}

\* the steps reached from the set S along depends_on in at most n hops
RECURSIVE ReachedFrom(_, _, _)
ReachedFrom(wf, S, n) ==
    IF n = 0 THEN S
    ELSE ReachedFrom(wf, S \cup UNION {DependsOn(wf, id) : id \in S}, n - 1)

HasDependencyCycle(wf) ==
    \E id \in StepIds(wf) : id \in ReachedFrom(wf, DependsOn(wf, id), Len(wf.steps))
HasDanglingDependency(wf) ==
    \E k \in DOMAIN wf.steps : ~(wf.steps[k].depends_on \subseteq StepIds(wf))

\* C13: no workflow whose depends_on relation has a cycle or names a step
\* that does not exist is ever stored: its creation is rejected.
C13_StoredWorkflowsAreValidDags ==
    \A i \in DOMAIN orch_workflows :
       /\ ~HasDependencyCycle(orch_workflows[i])
       /\ ~HasDanglingDependency(orch_workflows[i])

RegisteredIds(reg) == {reg[i].id : i \in DOMAIN reg}

\* C37: a function name is mapped to an agent id only if that agent is
\* registered and its current function list contains the name.
C37_FunctionIndexMatchesRegistry ==
    \A f \in DOMAIN function_to_agent :
       LET i == AgentIndex(function_to_agent[f])
       IN i # 0 /\ f \in orch_agents[i].functions

\* C16: a register call leaves exactly one entry per agent id registered so
\* far; the entry of the registered id holds the functions and the endpoint
\* of this call, and the entries of the other ids are as before.
C16_RegisterIsIdempotentUpsert ==
    [][(orch_ret'.op = "register_agent"
          /\ <<orch_agents, function_to_agent, orch_ret>>' #
                <<orch_agents, function_to_agent, orch_ret>>)
       => LET a == orch_ret'.agent
          IN /\ RegisteredIds(orch_agents') = RegisteredIds(orch_agents) \cup {a.id}
             /\ Len(orch_agents') = Cardinality(RegisteredIds(orch_agents'))
             /\ \A i \in DOMAIN orch_agents' :
                   IF orch_agents'[i].id = a.id
                   THEN orch_agents'[i] = a
                   ELSE i \in DOMAIN orch_agents /\ orch_agents'[i] = orch_agents[i]]_vars

\* an agent registered again with other functions, a second agent present
C16_Witness ==
    /\ orch_ret.op = "register_agent"
    /\ Len(orch_agents) = 2
    /\ orch_agents[1] = orch_ret.agent
    /\ \E f \in DOMAIN function_to_agent :
          /\ function_to_agent[f] = orch_ret.agent.id
          /\ f \notin orch_ret.agent.functions

\* the agent registered earliest among those whose functions hold f
FirstRegisteredWith(f) ==
    LET holders == {i \in DOMAIN orch_agents : f \in orch_agents[i].functions}
    IN IF holders = {} THEN None
       ELSE orch_agents[CHOOSE i \in holders : \A j \in holders : i <= j].id

\* C17: executing a function resolves it to the agent registered earliest
\* among those that declare it; when no registered agent declares it, the
\* call raises and no agent is changed.
C17_ResolvesToFirstRegistered ==
    [][(orch_ret'.op = "execute_function" /\ orch_ret' # orch_ret)
       => LET f == orch_ret'.function_name
          IN IF FirstRegisteredWith(f) = None
             THEN /\ orch_ret'.outcome = "raised"
                  /\ orch_ret'.agent = NoAgent
                  /\ orch_agents' = orch_agents
             ELSE orch_ret'.agent.id = FirstRegisteredWith(f)]_vars

----------------------------------------------------------------------------
(* Claims about function dispatch and workflow creation *)

\* C18: dispatching a function name that is not in the dispatcher's table
\* returns a function-not-found error that enumerates the known function
\* names, and leaves the workflow store and the agent registry unchanged.
C18_UnknownFunctionListsKnownNames ==
    [][(mcp_resp' # mcp_resp /\ mcp_resp'.via = "not_found") =>
          /\ mcp_resp'.status = "error"
          /\ mcp_resp'.code = "function_not_found"
          /\ mcp_resp'.available_functions = function_registry
          /\ UNCHANGED <<mcp_agents, mcp_workflows>>]_vars

\* C19: when the operation behind a known function raises, dispatch returns
\* an envelope {status: error, error: {code, message}}.
C19_RaisedErrorsHaveUniformEnvelope ==
    /\ wf_resp.via = "raised" =>
          wf_resp.status = "error" /\ wf_resp.error = "code_message"
    /\ mcp_resp.via = "raised" =>
          mcp_resp.status = "error" /\ mcp_resp.error = "code_message"

\* the statuses a workflow that has been created but not started may show
CreatedStatuses == {"CREATED", "pending"}

\* C20: creating a workflow with a known name stores it under a fresh
\* workflow_id and returns it with the initial status, no step started;
\* creating one with an unknown name returns an error and stores nothing.
C20_CreatedWithNoStepStarted ==
    [][/\ Len(mcp_workflows') > Len(mcp_workflows) =>
             LET w == mcp_workflows'[Len(mcp_workflows')]
             IN /\ \A k \in DOMAIN mcp_workflows :
                      mcp_workflows[k].workflow_id # w.workflow_id
                /\ mcp_resp'.status = "success"
                /\ mcp_resp'.workflow_id = w.workflow_id
                /\ mcp_resp'.workflow_status \in CreatedStatuses
                /\ w.status \in CreatedStatuses
                /\ \A k \in DOMAIN w.steps : w.steps[k] = "pending"
       /\ (mcp_resp' # mcp_resp /\ mcp_resp'.code = "unknown_workflow") =>
             mcp_resp'.status = "error" /\ mcp_workflows' = mcp_workflows]_vars

----------------------------------------------------------------------------
(* Claims about the task store and the message store *)

\* C21: DELETE /tasks/{id} on a stored task sets that task's status to
\* canceled and its updated_at to the current time and changes nothing
\* else: the task stays in the store (no task id ever leaves it), the
\* background run of its handler is where it was, every other task and
\* every message list is as before; on an unknown id it answers 404 and
\* changes nothing.
C21_DeleteOnlyMarksCanceled ==
    [][/\ DOMAIN tasks \subseteq DOMAIN tasks'
       /\ (resp' # resp /\ resp' = Response("delete", 200)) =>
             /\ UNCHANGED <<tasks, messages, bg_pc>>
             /\ \E id \in DOMAIN tasks :
                   objs' = [objs EXCEPT ![tasks[id]].status = "canceled",
                                        ![tasks[id]].updated_at = clock]
       /\ (resp' # resp /\ resp' = Response("delete", 404)) =>
             UNCHANGED <<objs, tasks, messages, bg_pc>>]_vars

C21_Witness ==
    /\ resp = Response("delete", 200)
    /\ \E id, other \in DOMAIN tasks :
          /\ id # other
          /\ Stored(id).status = "canceled"
          /\ Stored(id).created_at = 0 /\ Stored(id).updated_at = 1
          /\ bg_pc[tasks[id]] = "running"
          /\ Stored(other).status = "in_progress"
          /\ messages[id] # <<>>

\* C22: the message list of a task is append-only: a step leaves it as it
\* was or adds one message at its end, and a POST of a message answered
\* with 404 or 400 stores nothing.
C22_MessagesAreAppendOnly ==
    [][/\ \A id \in DOMAIN messages :
             /\ id \in DOMAIN messages'
             /\ Len(messages'[id]) \in {Len(messages[id]), Len(messages[id]) + 1}
             /\ SubSeq(messages'[id], 1, Len(messages[id])) = messages[id]
       /\ (resp' # resp /\ resp'.op = "send_message" /\ resp'.code \in {400, 404}) =>
             messages' = messages]_vars

TerminalStatuses == {"completed", "failed", "canceled"}

\* C23: for a task with a callback_url that has reached a terminal status,
\* a notification to that URL has been attempted.
C23_TerminalTaskIsNotified ==
    \A o \in DOMAIN objs :
       (objs[o].callback_url # None /\ objs[o].status \in TerminalStatuses)
          => objs[o].task_id \in callbacks_sent

\* C24: every accepted POST /tasks adds one task id to the store and leaves
\* every task already stored, and its message list, as it was.
C24_CreateNeverOverwrites ==
    [][(resp' = Response("create", 201) /\ Len(objs') = Len(objs) + 1) =>
          /\ Cardinality(DOMAIN tasks') = Cardinality(DOMAIN tasks) + 1
          /\ \A id \in DOMAIN tasks :
                /\ id \in DOMAIN tasks'
                /\ tasks'[id] = tasks[id]
                /\ objs'[tasks'[id]] = objs[tasks[id]]
                /\ messages'[id] = messages[id]]_vars

\* the fields of a task no PUT request may change
FixedFields(t) ==
    <<t.task_id, t.capability, t.parameters, t.priority, t.callback_url,
      t.created_at>>

\* C30: PUT /tasks/{id} on a stored task changes only that task's status,
\* result, error and updated_at: its other fields, its message list and
\* every other task are unchanged; on an unknown id it answers 404 and
\* changes nothing.
C30_UpdateChangesOnlyAllowedFields ==
    [][/\ \A id \in DOMAIN tasks :
             id \in DOMAIN tasks' /\ FixedFields(objs'[tasks'[id]]) = FixedFields(Stored(id))
       /\ (resp' # resp /\ resp' = Response("update", 200)) =>
             /\ UNCHANGED <<tasks, messages, bg_pc>>
             /\ \E id \in DOMAIN tasks :
                   /\ \A o \in DOMAIN objs \ {tasks[id]} : objs'[o] = objs[o]
                   /\ objs'[tasks[id]] =
                         [Stored(id) EXCEPT !.status = objs'[tasks[id]].status,
                                            !.result = objs'[tasks[id]].result,
                                            !.error = objs'[tasks[id]].error,
                                            !.updated_at = clock]
       /\ (resp' # resp /\ resp' = Response("update", 404)) =>
             UNCHANGED <<objs, tasks, messages, bg_pc>>]_vars

C30_Witness ==
    /\ resp = Response("update", 200)
    /\ \E id, other \in DOMAIN tasks :
          /\ id # other
          /\ Stored(id).status = "completed" /\ Stored(id).result = "r1"
          /\ Stored(id).created_at = 0 /\ Stored(id).updated_at = 1
          /\ messages[id] # <<>>
          /\ Stored(other).status = "pending" /\ Stored(other).updated_at = 0

----------------------------------------------------------------------------
(* Claims about the protocol server *)

\* C25: for a task accepted by POST /api/v1/tasks/send, GET
\* /api/v1/tasks/{task_id} answers 200 with the task's current status and
\* DELETE /api/v1/tasks/{task_id} answers 200 and leaves its stored status
\* canceled; for a task_id the server does not know, both answer 404.
C25_SentTasksAreRetrievable ==
    [][protocol_resp' # protocol_resp =>
          LET r == protocol_resp'
              sent == r.task_id \in DOMAIN tasks_db
              unknown == r.task_id \notin DOMAIN tasks_db \cup DOMAIN protocol_tasks
          IN /\ r.endpoint \in {"get_task", "tasks_get"} =>
                   /\ sent => r.code = 200 /\ r.status = tasks_db[r.task_id].status
                   /\ unknown => r.code = 404
             /\ r.endpoint \in {"cancel_task", "tasks_cancel"} =>
                   /\ sent => r.code = 200 /\ tasks_db'[r.task_id].status = "canceled"
                   /\ unknown => r.code = 404]_vars

\* C32: for a task of tasks_db that is completed or failed,
\* get_latest_agent_message on its snapshot returns the last response the
\* server appended to it, and None only when the server appended none.
C32_LatestAgentMessageIsTheResponse ==
    \A id \in DOMAIN tasks_db :
       tasks_db[id].status \in {"completed", "failed"} =>
          LET appended == {k \in DOMAIN tasks_db[id].messages :
                              tasks_db[id].messages[k] \in ServerResponses}
          IN get_latest_agent_message(tasks_db[id]) =
                IF appended = {} THEN None
                ELSE tasks_db[id].messages[CHOOSE k \in appended : \A j \in appended : j <= k]

----------------------------------------------------------------------------
(* Claims about the crypto order workflow *)

\* an amount that is a positive number
IsPositiveNumber(a) ==
    LET f == Float(a) IN f.raises = None /\ ~f.nan /\ f.num > 0

\* the parameter bags the claim says are rejected
InvalidOrder(p) ==
    \/ \E k \in DOMAIN required_params : ~HasKey(p, required_params[k])
    \/ p.order_type \notin {"MARKET", "LIMIT"}
    \/ p.side \notin {"BUY", "SELL"}
    \/ ~IsPositiveNumber(p.amount)
    \/ p.order_type = "LIMIT" /\ p.price = Absent

\* C26: get_workflow raises a ValueError and returns no workflow when a
\* required parameter is missing, order_type is not MARKET or LIMIT, side is
\* not BUY or SELL, amount is not a positive number, or a LIMIT order has no
\* price; for every other parameter bag it returns the six steps in order.
C26_InvalidOrdersAreRejected ==
    order_ret.op = "get_workflow" =>
       IF InvalidOrder(order_params)
       THEN order_ret.raised = "ValueError" /\ order_ret.steps = <<>>
       ELSE order_ret.raised = None /\ order_ret.steps = OrderSteps

\* the parameter bags that pass the checks made before the amount's
AmountIsChecked(p) ==
    /\ \A k \in DOMAIN required_params : HasKey(p, required_params[k])
    /\ p.order_type \in valid_order_types
    /\ p.side \in valid_sides

\* C27: a numeric amount <= 0 is rejected with 'Amount must be greater than
\* zero', a non-numeric amount with 'Amount must be a positive number'.
C27_AmountErrorsAreDistinguished ==
    (order_ret.op = "get_workflow" /\ AmountIsChecked(order_params)) =>
       LET f == Float(order_params.amount)
       IN /\ (f.raises = None /\ LessOrEqualZero(f)) =>
                order_ret.message = "Amount must be greater than zero"
          /\ f.raises # None =>
                order_ret.message = "Amount must be a positive number"

\* C28: when execute_all_steps has returned, the steps were called in
\* definition order, each at most once; the list returned holds 'success'
\* results followed by at most one 'error', which is its last; every step
\* after a failed step is PENDING; and is_completed() holds exactly when
\* the list has one 'success' for each step.
C28_StopsAtFirstFailure ==
    bw_pc = "returned" =>
       /\ called = [k \in 1..Len(results) |-> k]
       /\ \A k \in 1..(Len(results) - 1) : results[k] = "success"
       /\ (results # <<>> /\ results[Len(results)] = "error") =>
             \A k \in (Len(results) + 1)..Len(workflow_steps) : workflow_steps[k] = "PENDING"
       /\ is_completed <=>
             (Len(results) = Len(workflow_steps) /\ \A k \in DOMAIN results : results[k] = "success")

\* C36: a call of execute_next_step runs the step at current_step_index;
\* when the step succeeds the index grows by one, when it fails the index
\* stays, and no other step is touched; with the index past the last step
\* the call returns an error and changes no step's status or result.
C36_NextStepAdvancesOnlyOnSuccess ==
    [][next_ret'.n # next_ret.n =>
          LET i == current_step_index
          IN /\ next_ret'.index = i
             /\ IF i >= Len(workflow_steps)
                THEN /\ next_ret'.status = "error"
                     /\ UNCHANGED <<workflow_steps, step_result, current_step_index>>
                ELSE /\ next_ret'.status \in {"success", "error"}
                     /\ next_ret'.status = "success" =>
                           /\ current_step_index' = i + 1
                           /\ workflow_steps'[i + 1] = "COMPLETED"
                     /\ next_ret'.status = "error" =>
                           /\ current_step_index' = i
                           /\ workflow_steps'[i + 1] = "FAILED"
                     /\ \A k \in DOMAIN workflow_steps \ {i + 1} :
                           /\ workflow_steps'[k] = workflow_steps[k]
                           /\ step_result'[k] = step_result[k]]_vars

\* a failed step was run again and failed again, and later a call found the
\* index past the last step
C36_Witness ==
    /\ Len(workflow_steps) = 2
    /\ next_ret.n = 5
    /\ next_ret.index = 2
    /\ next_ret.status = "error"

----------------------------------------------------------------------------
(* Claims about the A2A clients *)

\* every task-creation request posted names a capability that the card the
\* client held for the agent listed
PostedAreDeclared == \A r \in posted : r.capability \in r.declared

\* C29: the client never submits a task for a capability the agent does
\* not declare: a call for an agent that had not been discovered, or for a
\* capability or skill its card does not list, raises ValueError and posts
\* no task-creation request.
C29_UndeclaredCapabilityIsRefused ==
    /\ PostedAreDeclared
    /\ (client_ret.op # None /\ (~client_ret.discovered \/ ~client_ret.listed)) =>
          (client_ret.raised = "ValueError" /\ client_ret.sent = 0)

\* C29, amended: the client never submits a task for a capability the agent
\* does not declare: a call for a capability or skill the discovered card
\* does not list, and a create_task for an agent that has not been
\* discovered, raise ValueError and post no task-creation request;
\* execute_skill called before the agent has been discovered discovers it
\* first (the error of a failed discovery is raised and nothing is posted)
\* and then posts the request only if the card lists the skill.
C29_UnlistedCapabilityIsRefused ==
    /\ PostedAreDeclared
    /\ (client_ret.card /\ ~client_ret.listed) =>
          (client_ret.raised = "ValueError" /\ client_ret.sent = 0)
    /\ (client_ret.op = "create_task" /\ ~client_ret.discovered) =>
          (client_ret.raised = "ValueError" /\ client_ret.sent = 0)
    /\ (client_ret.op = "execute_skill" /\ ~client_ret.discovered) =>
          IF client_ret.card
          THEN ~Falsy(agent_card) /\ (client_ret.sent = 1 => client_ret.listed)
          ELSE client_ret.raised = "HTTPError" /\ client_ret.sent = 0
    /\ client_ret.sent = 1 => (client_ret.card /\ client_ret.listed)

\* execute_skill was called before any discovery for a skill the card it
\* then fetched does not list, after a request for a listed one was posted
C29_Witness ==
    /\ client_ret.op = "execute_skill"
    /\ ~client_ret.discovered
    /\ client_ret.card
    /\ ~client_ret.listed
    /\ client_ret.raised = "ValueError"
    /\ posted # {}

----------------------------------------------------------------------------
(* Claims about concurrent dispatches *)

\* the dispatches in flight on the Agent stored under an id
InFlightOn(id) ==
    {t \in DispatchThreads :
        /\ in_flight[t].pc = "running"
        /\ in_flight[t].agent = id
        /\ ~in_flight[t].replaced}

\* C31: a registered agent is BUSY exactly while a dispatch on it is in
\* flight, and execute_function leaves the agent AVAILABLE when it returns
\* and ERROR when the execution raised.
C31_BusyWhileInFlight ==
    /\ \A i \in DOMAIN orch_agents :
          (orch_agents[i].status = "BUSY") <=> (InFlightOn(orch_agents[i].id) # {})
    /\ (orch_ret.op = "execute_function" /\ orch_ret.outcome = "returned") =>
          orch_ret.agent.status = "AVAILABLE"
    /\ (orch_ret.op = "execute_function" /\ orch_ret.outcome = "raised"
          /\ orch_ret.agent # NoAgent) => orch_ret.agent.status = "ERROR"

----------------------------------------------------------------------------
(* Claims about the progress of a function-protocol workflow *)

\* C34: a workflow with n steps advanced k times by
\* simulate_workflow_progress without a step index has its first k steps
\* completed, step k+1 in progress and the others pending, so at most one
\* step is in progress and the steps complete in definition order; it is
\* in_progress while k < n, and from k = n on every step is completed and it
\* is completed.
C34_PlainCallsAdvanceOneStepEach ==
    \A w \in DOMAIN mcp_workflows :
       LET steps == mcp_workflows[w].steps
           n == Len(steps)
           k == plain_calls[w]
       IN /\ Cardinality({j \in DOMAIN steps : steps[j] = "in_progress"}) <= 1
          /\ \A j \in DOMAIN steps :
                steps[j] = IF j <= k THEN "completed"
                           ELSE IF j = k + 1 THEN "in_progress"
                           ELSE "pending"
          /\ k < n => mcp_workflows[w].status = "in_progress"
          /\ k >= n => mcp_workflows[w].status = "completed"

\* a workflow has been advanced once for each of its steps
C34_Witness ==
    \E w \in DOMAIN mcp_workflows :
       /\ plain_calls[w] = Len(mcp_workflows[w].steps)
       /\ mcp_workflows[w].status = "completed"

\* the order of the step statuses: pending, in_progress, completed
StatusRank(status) ==
    CASE status = "pending" -> 0
      [] status = "in_progress" -> 1
      [] status = "completed" -> 2
      [] OTHER -> 3

\* C35: whatever simulate_workflow_progress is called with, no step goes
\* back in the order pending, in_progress, completed, and a workflow whose
\* status is completed keeps that status.
C35_StepStatusesOnlyMoveForward ==
    [][\A w \in DOMAIN mcp_workflows :
          /\ \A k \in DOMAIN mcp_workflows[w].steps :
                StatusRank(mcp_workflows[w].steps[k]) <=
                   StatusRank(mcp_workflows'[w].steps[k])
          /\ mcp_workflows[w].status = "completed" =>
                mcp_workflows'[w].status = "completed"]_vars

\* C38: the two crypto-order validators agree: for every parameter bag,
\* get_workflow raises a ValueError exactly when
\* CryptoOrderWorkflow(parameters).validate_parameters() returns False
C38_ValidatorsAgree ==
    (order_ret.op = "get_workflow" /\ validate_ret.op = "validate_parameters") =>
       (order_ret.raised = "ValueError" <=> ~validate_ret.returned)

\* a LIMIT order that lacks nothing but its price, refused by both validators
C38_RefusedByBoth ==
    /\ order_ret.op = "get_workflow"
    /\ validate_ret.op = "validate_parameters"
    /\ order_params.order_type = "LIMIT"
    /\ order_params.price = Absent
    /\ order_params.amount = Amount("number", 100000, "")
    /\ order_params.side = "BUY"
    /\ order_params.asset # Absent
    /\ order_params.portfolio_id # Absent
    /\ order_ret.raised = "ValueError"
    /\ ~validate_ret.returned

====
